---- MODULE Spec2Model ----
(***************************************************************************)
(* Unlock-state synchronization engine of the RoR2 save editor.            *)
(* Model of src/src/lib/save-operations.ts and                             *)
(* src/src/lib/challenge-logbook-mapping.ts: the six collections and the   *)
(* counter map of a SaveData record, the reference graph between the       *)
(* challenge catalog and the logbook catalog, the identifier resolver and  *)
(* the toggle / bulk operations.                                           *)
(***************************************************************************)
EXTENDS Integers, Sequences, FiniteSets, TLC

(***************************************************************************)
(* Argument passing.  JavaScript evaluates an argument once and passes its *)
(* value; With hands the value of v to F.                                  *)
(***************************************************************************)
With(v, F(_)) == CHOOSE r \in { F(x) : x \in { v } } : TRUE

With2(v, w, F(_, _)) == CHOOSE r \in { F(x, y) : x \in { v }, y \in { w } } : TRUE

(***************************************************************************)
(* JavaScript string primitives, on TLC strings (character level).         *)
(***************************************************************************)
StartsWith(s, p) ==
  With2(s, p, LAMBDA a, b : Len(a) >= Len(b) /\ SubSeq(a, 1, Len(b)) = b)

EndsWith(s, p) ==
  With2(s, p, LAMBDA a, b : Len(a) >= Len(b) /\ SubSeq(a, Len(a) - Len(b) + 1, Len(a)) = b)

\* s.slice(0, -n) for a string known to be at least n long
DropLast(s, n) == With(s, LAMBDA a : SubSeq(a, 1, Len(a) - n))

\* s.slice(n)
DropFirst(s, n) == With(s, LAMBDA a : SubSeq(a, n + 1, Len(a)))

\* s.replace(/p$/, "")
StripSuffix(s, p) ==
  With(s, LAMBDA a : IF EndsWith(a, p) THEN DropLast(a, Len(p)) ELSE a)

\* s.replace(/^p/, "")
StripPrefix(s, p) ==
  With(s, LAMBDA a : IF StartsWith(a, p) THEN DropFirst(a, Len(p)) ELSE a)

\* s.indexOf(p) searched from position i, 1-based, 0 when absent
IndexFrom(s, p, i) ==
  With2(s, p, LAMBDA a, b :
    With({ k \in i..(Len(a) - Len(b) + 1) : SubSeq(a, k, k + Len(b) - 1) = b }, LAMBDA hits :
      IF hits = {} THEN 0 ELSE CHOOSE k \in hits : \A j \in hits : k <= j))

IndexOf(s, p) == IndexFrom(s, p, 1)

\* s.includes(p)
Includes(s, p) == IndexOf(s, p) # 0

\* the pieces of s.split(d) from position start on, d a single character
RECURSIVE SplitFrom(_, _, _)
SplitFrom(s, d, start) ==
  With2(s, start, LAMBDA a, from :
    With(IndexFrom(a, d, from), LAMBDA i :
      IF i = 0 THEN << SubSeq(a, from, Len(a)) >>
      ELSE << SubSeq(a, from, i - 1) >> \o SplitFrom(a, d, i + 1)))

\* s.split(d), d a single character
Split(s, d) == SplitFrom(s, d, 1)

LowerChars == "abcdefghijklmnopqrstuvwxyz"
UpperChars == "ABCDEFGHIJKLMNOPQRSTUVWXYZ"

CharToUpper(c) ==
  With(IndexOf(LowerChars, c), LAMBDA i : IF i = 0 THEN c ELSE SubSeq(UpperChars, i, i))

CharToLower(c) ==
  With(IndexOf(UpperChars, c), LAMBDA i : IF i = 0 THEN c ELSE SubSeq(LowerChars, i, i))

\* s.toUpperCase(), from position i on
RECURSIVE UpperFrom(_, _)
UpperFrom(s, i) ==
  With2(s, i, LAMBDA a, k :
    IF k > Len(a) THEN "" ELSE CharToUpper(SubSeq(a, k, k)) \o UpperFrom(a, k + 1))

\* s.toLowerCase(), from position i on
RECURSIVE LowerFrom(_, _)
LowerFrom(s, i) ==
  With2(s, i, LAMBDA a, k :
    IF k > Len(a) THEN "" ELSE CharToLower(SubSeq(a, k, k)) \o LowerFrom(a, k + 1))

ToUpperCase(s) == UpperFrom(s, 1)

ToLowerCase(s) == LowerFrom(s, 1)

\* s.charAt(0).toUpperCase() + s.slice(1).toLowerCase()
Capitalize(s) ==
  With(s, LAMBDA a :
    IF Len(a) = 0 THEN a
    ELSE CharToUpper(SubSeq(a, 1, 1)) \o ToLowerCase(DropFirst(a, 1)))

\* parts.map(Capitalize).join("")
RECURSIVE JoinCapitalized(_)
JoinCapitalized(parts) ==
  With(parts, LAMBDA ps :
    IF ps = << >> THEN ""
    ELSE Capitalize(Head(ps)) \o JoinCapitalized(Tail(ps)))

(***************************************************************************)
(* JavaScript collections.  A Set<string> is a duplicate-free sequence in  *)
(* insertion order (Array.from(set) returns exactly that order); a         *)
(* Map<string, string> is a set of <<key, value>> pairs with unique keys.  *)
(***************************************************************************)
Range(seq) == With(seq, LAMBDA q : { q[i] : i \in 1..Len(q) })

\* set.add(x)
SetAdd(set, x) ==
  With2(set, x, LAMBDA s, y : IF y \in Range(s) THEN s ELSE Append(s, y))

\* set.delete(x)
SetDelete(set, x) == With(x, LAMBDA y : SelectSeq(set, LAMBDA z : z # y))

\* for (const x of xs) set.add(x)
RECURSIVE AddAll(_, _)
AddAll(set, xs) ==
  With2(set, xs, LAMBDA s, ys :
    IF ys = << >> THEN s ELSE AddAll(SetAdd(s, Head(ys)), Tail(ys)))

\* for (const x of xs) set.delete(x)
DeleteAll(set, xs) ==
  With(Range(xs), LAMBDA gone : SelectSeq(set, LAMBDA z : z \notin gone))

\* variant: the working copy keeps the repeated elements of the array
NewSetKeepingRepeats(array) == array

\* new Set(array)
NewSet(array) == AddAll(<< >>, array)

\* map.has(k)
MapHas(map, k) == With(k, LAMBDA key : \E p \in map : p[1] = key)

\* map.get(k), "" when absent
MapGet(map, k) ==
  With2(map, k, LAMBDA m, key :
    IF MapHas(m, key) THEN (CHOOSE p \in m : p[1] = key)[2] ELSE "")

\* variant: a key that is already set accumulates the new value instead of taking it
MapSetAccumulating(map, k, v) ==
  With2(map, k, LAMBDA m, key :
    { p \in m : p[1] # key }
      \cup { <<key, IF MapHas(m, key) THEN MapGet(m, key) \o v ELSE v>> })

\* map.set(k, v)
MapSet(map, k, v) ==
  With(k, LAMBDA key : { p \in map : p[1] # key } \cup { <<key, v>> })

\* map.delete(k)
MapDelete(map, k) == With(k, LAMBDA key : { p \in map : p[1] # key })

MapKeys(map) == { p[1] : p \in map }

\* for (const k of ks) map.delete(k)
MapDeleteAll(map, ks) ==
  With(Range(ks), LAMBDA gone : { p \in map : p[1] \notin gone })

\* A function of the catalog evaluated once per catalog element: table is the set
\* of <<element, value>> pairs
Cached(table, key) == (CHOOSE p \in table : p[1] = key)[2]

\* for (const [k, v] of pairs) map.set(k, v)
RECURSIVE MapSetPairs(_, _)
MapSetPairs(map, pairs) ==
  With2(map, pairs, LAMBDA m, ps :
    IF ps = << >> THEN m
    ELSE MapSetPairs(MapSet(m, Head(ps)[1], Head(ps)[2]), Tail(ps)))

\* table[k] on an object literal, "" when the key is absent
Lookup(table, k) ==
  With2(table, k, LAMBDA t, key :
    With({ i \in 1..Len(t) : t[i][1] = key }, LAMBDA hits :
      IF hits = {} THEN ""
      ELSE t[CHOOSE i \in hits : \A j \in hits : j <= i][2]))

(***************************************************************************)
(* Identifier resolver: the static tables.                                 *)
(***************************************************************************)
\* overrides of getInternalBodyName: cleaned token -> internal name or full log string
overrides ==
  << <<"TITANGOLD", "TitanGoldBody">>,
     <<"SUPERROBOBALLBOSS", "SuperRoboBallBossBody">>,
     <<"ROBOBALLBOSS", "RoboBallBossBody">>,
     <<"ROBOBALLMINI", "RoboBallMiniBody">>,
     <<"DRONE_BACKUP", "BackupDroneBody">>,
     <<"DRONE_BOMBER", "DroneBomberBody">>,
     <<"DRONE_DTHEALING", "DTHealingDroneBody">>,
     <<"DRONE_CLEANUP", "CleanupDroneBody">>,
     <<"DRONE_CHIRP", "ChirpBody">>,
     <<"MINIMUSHROOM", "Logs.MiniMushroom.0">>,
     <<"PARENT", "Logs.Parent.0">>,
     <<"NULLIFIER", "Logs.Nullifier.0">>,
     <<"SCAV", "Logs.Scav.0">>,
     <<"LUNARGOLEM", "Logs.LunarGolem.0">>,
     <<"LUNAREXPLODER", "Logs.LunarExploder.0">>,
     <<"LUNARWISP", "Logs.LunarWisp.0">>,
     <<"ACIDLARVA", "Logs.AcidLarva">>,
     <<"VOIDMEGACRAB", "Logs.VoidMegaCrab">>,
     <<"VOIDINFESTOR", "Logs.VoidInfestorBody">>,
     <<"MINORCONSTRUCT", "Logs.MinorConstructBody">>,
     <<"VOIDBARNACLE", "Logs.VoidBarnacleBody">>,
     <<"CLAYGRENADIER", "Logs.ClayGrenadierBody">>,
     <<"VOIDJAILER", "Logs.VoidJailerBody">>,
     <<"MEGACONSTRUCT", "Logs.MegaConstructBody">>,
     <<"XICONSTRUCT", "Logs.MegaConstructBody">>,
     <<"MINIVOIDRAIDCRAB", "Logs.MiniVoidRaidCrab">>,
     <<"FLYINGVERMIN", "Logs.FlyingVerminBody.0">>,
     <<"WORKERUNIT", "Logs.WorkerUnitBody.0">>,
     <<"EXTRACTORUNIT", "Logs.ExtractorUnitBody.0">>,
     <<"DEFECTIVEUNIT", "Logs.DefectiveUnitBody.0">>,
     <<"VULTUREHUNTER", "Logs.VultureHunter.0">>,
     <<"SOLUSWING", "Logs.SolusWingBody.0">>,
     <<"IRONHAULER", "Logs.IronHaulerBody.0">>,
     <<"SOLUSAMALGAMATOR", "Logs.SolusAmalgamatorBody.0">>,
     <<"FALSESONBOSS", "Logs.FalseSonBossBody.0">>,
     <<"SOLUSHEART", "Log.SolusHeart">>,
     <<"MINEPOD", "Logs.MinePodBody">>,
     <<"ELECTRICWORM", "Logs.ElectricWormBody.0">>,
     <<"MAGMAWORM", "Logs.MagmaWormBody.0">>,
     <<"IMPBOSS", "Logs.ImpBossBody.0">>,
     <<"BEETLEQUEEN", "Logs.BeetleQueenBody.0">>,
     <<"CLAYBOSS", "Logs.ClayBossBody.0">>,
     <<"BEETLEGUARD", "Logs.BeetleGuardBody.0">>,
     <<"GREATERWISP", "Logs.GreaterWispBody.0">>,
     <<"LEMURIANBRUISER", "Logs.LemurianBruiserBody.0">>,
     <<"CLAYBRUISER", "Logs.ClayBruiserBody.0">>,
     <<"VOIDSURVIVOR", "VoidSurvivorBody">>,
     <<"DRONETECH", "DroneTechBody">>,
     <<"FALSESON", "FalseSonBody">>,
     <<"CHEF", "ChefBody">>,
     <<"DAMPCAVE", "dampcavesimple">> >>

\* specialMappings of convertToViewableId: Logs.X body token -> /Logbook/ body token
specialMappings ==
  << <<"OPERATOR", "DRONETECH">>,
     <<"BANDIT2", "BANDIT2">>,
     <<"MULT", "TOOLBOT">>,
     <<"ENGI", "ENGI">>,
     <<"MAGE", "MAGE">>,
     <<"MERC", "MERC">>,
     <<"REX", "TREEBOT">>,
     <<"LOADER", "LOADER">>,
     <<"ACRID", "CROCO">>,
     <<"VOIDFIEND", "VOIDSURVIVOR">>,
     <<"DRONE1", "GUNNER">>,
     <<"DRONE2", "HEALING">>,
     <<"TURRET1", "TURRET1">>,
     <<"FLAMEDRONE", "FLAMEDRONE">>,
     <<"MEGADRONE", "MEGA">>,
     <<"DRONECOMMANDER", "COMMANDER">>,
     <<"HAULERDRONE", "HAULER">>,
     <<"JUNKDRONE", "JUNK">>,
     <<"CLEANUPDRONE", "CLEANUP">>,
     <<"DRONEBOMBER", "BOMBER">>,
     <<"DTGUNNERDRONE", "DTGUNNER">>,
     <<"DTHAULERDRONE", "DTHAULER">>,
     <<"DTHEALINGDRONE", "DTHEALING">>,
     <<"JAILERDRONE", "JAILER">>,
     <<"RECHARGEDRONE", "RECHARGE">>,
     <<"BOMBARDMENTDRONE", "BOMBARDMENT">>,
     <<"COPYCATDRONE", "COPYCAT">>,
     <<"EMERGENCYDRONE", "EMERGENCYDRONE">>,
     <<"EQUIPMENTDRONE", "EQUIPMENTDRONE">>,
     <<"MINORCONSTRUCT", "MINORCONSTRUCT">>,
     <<"XICONSTRUCT", "MEGACONSTRUCT">>,
     <<"ACIDLARVA", "ACIDLARVA">>,
     <<"VOIDMEGACRAB", "VOIDMEGACRAB">>,
     <<"SOLUSPROBE", "ROBOALLMINI">>,
     <<"SOLUSCONTROLUNIT", "ROBOBALLBOSS">>,
     <<"ALLOYWORSHIPUNIT", "SUPERROBOBALLBOSS">>,
     <<"CHILD", "CHILD">>,
     <<"SCORCHLING", "SCORCHLING">>,
     <<"HALCYONITE", "HALCYONITE">>,
     <<"FALSESONBOSS", "FALSESON_BOSS">> >>

\* LOGBOOK_ALIASES: main viewable path -> its single legacy alias
LOGBOOK_ALIASES ==
  << <<"/Logbook/LOGBOOK_CATEGORY_SURVIVOR/COMMANDO_BODY_NAME", "/Survivors/Commando">>,
     <<"/Logbook/LOGBOOK_CATEGORY_SURVIVOR/HUNTRESS_BODY_NAME", "/Survivors/Huntress">>,
     <<"/Logbook/LOGBOOK_CATEGORY_SURVIVOR/BANDIT2_BODY_NAME", "/Survivors/Bandit2">>,
     <<"/Logbook/LOGBOOK_CATEGORY_SURVIVOR/TOOLBOT_BODY_NAME", "/Survivors/Toolbot">>,
     <<"/Logbook/LOGBOOK_CATEGORY_SURVIVOR/ENGI_BODY_NAME", "/Survivors/Engi">>,
     <<"/Logbook/LOGBOOK_CATEGORY_SURVIVOR/MAGE_BODY_NAME", "/Survivors/Mage">>,
     <<"/Logbook/LOGBOOK_CATEGORY_SURVIVOR/MERC_BODY_NAME", "/Survivors/Merc">>,
     <<"/Logbook/LOGBOOK_CATEGORY_SURVIVOR/TREEBOT_BODY_NAME", "/Survivors/Treebot">>,
     <<"/Logbook/LOGBOOK_CATEGORY_SURVIVOR/LOADER_BODY_NAME", "/Survivors/Loader">>,
     <<"/Logbook/LOGBOOK_CATEGORY_SURVIVOR/CROCO_BODY_NAME", "/Survivors/Croco">>,
     <<"/Logbook/LOGBOOK_CATEGORY_SURVIVOR/CAPTAIN_BODY_NAME", "/Survivors/Captain">>,
     <<"/Logbook/LOGBOOK_CATEGORY_SURVIVOR/RAILGUNNER_BODY_NAME", "/Survivors/Railgunner">>,
     <<"/Logbook/LOGBOOK_CATEGORY_SURVIVOR/VOIDSURVIVOR_BODY_NAME", "/Survivors/VoidSurvivor">>,
     <<"/Logbook/LOGBOOK_CATEGORY_SURVIVOR/SEEKER_BODY_NAME", "/Survivors/Seeker">>,
     <<"/Logbook/LOGBOOK_CATEGORY_SURVIVOR/FALSESON_BODY_NAME", "/Survivors/FalseSon">>,
     <<"/Logbook/LOGBOOK_CATEGORY_SURVIVOR/CHEF_BODY_NAME", "/Survivors/Chef">>,
     <<"/Logbook/LOGBOOK_CATEGORY_SURVIVOR/DRONETECH_BODY_NAME", "/Survivors/DroneTech">>,
     <<"/Logbook/LOGBOOK_CATEGORY_SURVIVOR/DRIFTER_BODY_NAME", "/Survivors/Drifter">> >>

\* droneMap of getDronePickupId: drone unlock id -> DroneIndex pickup id
droneMap ==
  << <<"Logs.Drone1Body.0", "DroneIndex.Drone1">>,
     <<"Logs.Drone2Body.0", "DroneIndex.Drone2">>,
     <<"Logs.Turret1Body.0", "DroneIndex.Turret1">>,
     <<"Logs.EmergencyDroneBody.0", "DroneIndex.EmergencyDrone">>,
     <<"Logs.EquipmentDroneBody.0", "DroneIndex.EquipmentDrone">>,
     <<"Logs.FlameDroneBody.0", "DroneIndex.FlameDrone">>,
     <<"Logs.MissileDroneBody.0", "DroneIndex.MissileDrone">>,
     <<"Logs.MegaDroneBody.0", "DroneIndex.MegaDrone">>,
     <<"Logs.DroneCommanderBody.0", "DroneIndex.DroneCommander">>,
     <<"Logs.HaulerDroneBody.0", "DroneIndex.HaulerDrone">>,
     <<"Logs.JunkDroneBody.0", "DroneIndex.JunkDrone">>,
     <<"Logs.BestBuddyBody.0", "DroneIndex.BestBuddy">>,
     <<"Logs.CleanupDroneBody.0", "DroneIndex.CleanupDrone">>,
     <<"Logs.DroneBomberBody.0", "DroneIndex.DroneBomber">>,
     <<"Logs.DTGunnerDroneBody.0", "DroneIndex.DTGunnerDrone">>,
     <<"Logs.DTHaulerDroneBody.0", "DroneIndex.DTHaulerDrone">>,
     <<"Logs.DTHealingDroneBody.0", "DroneIndex.DTHealingDrone">>,
     <<"Logs.JailerDroneBody.0", "DroneIndex.JailerDrone">>,
     <<"Logs.RechargeDroneBody.0", "DroneIndex.RechargeDrone">>,
     <<"Logs.BombardmentDroneBody.0", "DroneIndex.BombardmentDrone">>,
     <<"Logs.CopycatDroneBody.0", "DroneIndex.CopycatDrone">>,
     <<"Logs.LtDroneboyBody.0", "DroneIndex.LtDroneboy">>,
     <<"Logs.CrosshairsBody.0", "DroneIndex.Crosshairs">>,
     <<"Logs.ChirpBody.0", "DroneIndex.Chirp">>,
     <<"Logs.DocBody.0", "DroneIndex.Doc">>,
     <<"Logs.BarrierDroneBody.0", "DroneIndex.BarrierDrone">>,
     <<"Logs.FreezeDroneBody.0", "DroneIndex.FreezeDrone">>,
     <<"Logs.BackupDroneBody.0", "DroneIndex.BackupDrone">>,
     <<"DroneIndex.Drone1", "DroneIndex.Drone1">> >>

(***************************************************************************)
(* Identifier resolver: the functions.                                     *)
(***************************************************************************)
\* viewableId.split("/").pop()
LastPathPart(viewableId) ==
  With(Split(viewableId, "/"), LAMBDA parts : parts[Len(parts)])

getInternalBodyName(viewableId) ==
  With(LastPathPart(viewableId), LAMBDA lastPart :
    IF lastPart = "" THEN ""
    ELSE With(StripSuffix(StripPrefix(StripSuffix(StripSuffix(lastPart,
                "_BODY_NAME"), "_NAME"), "MAP_"), "_TITLE"), LAMBDA clean :
           With(Lookup(overrides, clean), LAMBDA override :
             IF override # "" THEN override
             ELSE JoinCapitalized(Split(clean, "_")))))

getLogbookAliases(mainId) ==
  With(Lookup(LOGBOOK_ALIASES, mainId), LAMBDA alias :
    IF alias = "" THEN << >> ELSE << alias >>)

\* "" stands for null
getDronePickupId(unlockId) == Lookup(droneMap, unlockId)

\* unlockId.match(/Logs\.(.+?)(?:Body)?(?:\.0)?$/): the captured group, "" when no match
bodyMatch(unlockId) ==
  With2(unlockId, IndexOf(unlockId, "Logs."), LAMBDA id, i :
    With(DropFirst(id, i + 4), LAMBDA rest :
      IF i = 0 \/ rest = "" THEN ""
      ELSE IF EndsWith(rest, "Body.0") /\ Len(rest) > 6 THEN DropLast(rest, 6)
      ELSE IF EndsWith(rest, "Body") /\ Len(rest) > 4 THEN DropLast(rest, 4)
      ELSE IF EndsWith(rest, ".0") /\ Len(rest) > 2 THEN DropLast(rest, 2)
      ELSE rest))

\* unlockId.match(/Logs\.Stages\.(.+)$/): the captured group, "" when no match
stageMatch(unlockId) ==
  With2(unlockId, IndexOf(unlockId, "Logs.Stages."), LAMBDA id, i :
    IF i = 0 THEN "" ELSE DropFirst(id, i + 11))

noDronePrefix == { "EMERGENCYDRONE", "EQUIPMENTDRONE", "FLAMEDRONE", "MEGADRONE" }

\* "" stands for null
convertToViewableId(entry) ==
  With2(stageMatch(entry.unlockId), bodyMatch(entry.unlockId), LAMBDA stage, body :
    With(StripSuffix(ToUpperCase(body), "BODY"), LAMBDA upper :
      With(Lookup(specialMappings, upper), LAMBDA special :
        With(IF special # "" THEN special ELSE upper, LAMBDA bodyName :
          IF stage # "" /\ entry.category = "environments"
          THEN "/Logbook/LOGBOOK_CATEGORY_STAGE/MAP_" \o ToUpperCase(stage) \o "_TITLE"
          ELSE IF body = "" THEN ""
          ELSE IF entry.category = "monsters"
               THEN "/Logbook/LOGBOOK_CATEGORY_MONSTER/" \o bodyName \o "_BODY_NAME"
          ELSE IF entry.category = "survivors"
               THEN "/Logbook/LOGBOOK_CATEGORY_SURVIVOR/" \o bodyName \o "_BODY_NAME"
          ELSE IF entry.category = "drones"
               THEN IF bodyName \in noDronePrefix
                    THEN "/Logbook/LOGBOOK_CATEGORY_DRONE/" \o bodyName \o "_BODY_NAME"
                    ELSE "/Logbook/LOGBOOK_CATEGORY_DRONE/DRONE_" \o bodyName \o "_BODY_NAME"
          ELSE ""))))

(***************************************************************************)
(* The catalogs.  The engine treats them as immutable input; this is a     *)
(* small catalog with one entry of every logbook category, one challenge   *)
(* per linkage shape (single entry, several entries, shared entry, no      *)
(* entry) and content of several DLCs.                                     *)
(***************************************************************************)
DLCs == { "base", "sotv", "sots", "ac" }

challenges ==
  << [ id |-> "total-drones-repaired", achievement |-> "TotalDronesRepaired",
       unlocks |-> << "Equipment.DroneBackup" >>, dlc |-> "base" ],
     [ id |-> "automation-activation", achievement |-> "AutomationActivation",
       unlocks |-> << "Items.Squid", "Equipment.DroneBackup" >>, dlc |-> "base" ],
     [ id |-> "defeat-false-son", achievement |-> "DefeatFalseSon",
       unlocks |-> << "Items.HealAndRevive" >>, dlc |-> "sots" ],
     [ id |-> "commando-fast-first-stage-clear", achievement |-> "CommandoFastFirstStageClear",
       unlocks |-> << "Skills.Commando.SlideJet" >>, dlc |-> "base" ],
     [ id |-> "repeat-first-teleporter", achievement |-> "RepeatFirstTeleporter",
       unlocks |-> << "Characters.Toolbot" >>, dlc |-> "base" ],
     [ id |-> "complete-twenty-stages", achievement |-> "CompleteTwentyStages",
       unlocks |-> << "Equipment.DroneBackup", "Items.HealAndRevive" >>, dlc |-> "base" ] >>

logbookEntries ==
  << [ id |-> "squid", category |-> "items", unlockId |-> "Items.Squid",
       pickupId |-> "ItemIndex.Squid", dlc |-> "base" ],
     [ id |-> "drone-backup", category |-> "equipment", unlockId |-> "Equipment.DroneBackup",
       pickupId |-> "EquipmentIndex.DroneBackup", dlc |-> "base" ],
     [ id |-> "heal-and-revive", category |-> "items", unlockId |-> "Items.HealAndRevive",
       pickupId |-> "ItemIndex.HealAndRevive", dlc |-> "sots" ],
     [ id |-> "beetle", category |-> "monsters",
       unlockId |-> "/Logbook/LOGBOOK_CATEGORY_MONSTER/BEETLE_BODY_NAME",
       pickupId |-> "", dlc |-> "base" ],
     [ id |-> "solus-heart", category |-> "monsters",
       unlockId |-> "/Logbook/LOGBOOK_CATEGORY_MONSTER/SOLUSHEART_BODY_NAME",
       pickupId |-> "", dlc |-> "ac" ],
     [ id |-> "artifactworld", category |-> "environments",
       unlockId |-> "/Logbook/LOGBOOK_CATEGORY_STAGE/MAP_ARTIFACTWORLD_TITLE",
       pickupId |-> "", dlc |-> "base" ],
     [ id |-> "toolbot", category |-> "survivors",
       unlockId |-> "/Logbook/LOGBOOK_CATEGORY_SURVIVOR/TOOLBOT_BODY_NAME",
       pickupId |-> "", dlc |-> "base" ],
     [ id |-> "chirp", category |-> "drones", unlockId |-> "Logs.ChirpBody.0",
       pickupId |-> "DroneIndex.Chirp", dlc |-> "ac" ] >>

Challenges == Range(challenges)
Entries == Range(logbookEntries)

\* An achievement id that matches no challenge of the catalog
UnknownAchievement == "NotAnAchievement"

\* challenges.find((c) => c.achievement === achievementId); Found = FALSE stands for undefined
findChallenge(achievementId) ==
  With({ i \in 1..Len(challenges) : challenges[i].achievement = achievementId }, LAMBDA hits :
    IF hits = {} THEN [ found |-> FALSE, challenge |-> challenges[1] ]
    ELSE [ found |-> TRUE,
           challenge |-> challenges[CHOOSE i \in hits : \A j \in hits : i <= j] ])

(***************************************************************************)
(* Reference graph (buildMapping and its lookups).                         *)
(***************************************************************************)
MAPPED_PREFIXES == << "Items.", "Equipment." >>

\* variant: only the Items. prefix is mapped
isItemsPrefix(unlock) == StartsWith(unlock, "Items.")

isMappedPrefix(unlock) ==
  \E i \in 1..Len(MAPPED_PREFIXES) : StartsWith(unlock, MAPPED_PREFIXES[i])

\* unlockIdToLogbook.get(unlock): index into logbookEntries, 0 when absent
unlockIdToLogbook(unlock) ==
  With({ i \in 1..Len(logbookEntries) :
           /\ logbookEntries[i].category \in { "items", "equipment" }
           /\ logbookEntries[i].unlockId = unlock }, LAMBDA hits :
    IF hits = {} THEN 0 ELSE CHOOSE i \in hits : \A j \in hits : j <= i)

\* linkedLogbookIds of one challenge, in the order of its unlock list
RECURSIVE linkedLogbookIds(_)
linkedLogbookIds(unlocksArg) ==
  With(unlocksArg, LAMBDA unlocks :
    IF unlocks = << >> THEN << >>
    ELSE With(unlockIdToLogbook(Head(unlocks)), LAMBDA hit :
           ( IF isMappedPrefix(Head(unlocks)) /\ hit # 0
             THEN << logbookEntries[hit].id >> ELSE << >> )
           \o linkedLogbookIds(Tail(unlocks))))

logbookEntryById(id) ==
  logbookEntries[CHOOSE i \in 1..Len(logbookEntries) :
                   /\ logbookEntries[i].id = id
                   /\ \A j \in 1..Len(logbookEntries) : logbookEntries[j].id = id => j <= i]

challengeById(id) ==
  challenges[CHOOSE i \in 1..Len(challenges) :
               /\ challenges[i].id = id
               /\ \A j \in 1..Len(challenges) : challenges[j].id = id => j <= i]

\* mapping.challengeToLogbook, built once: challenge id -> ids of its linked entries
challengeToLogbook ==
  { <<c.id, linkedLogbookIds(c.unlocks)>> : c \in Challenges }

RECURSIVE MapEntries(_)
MapEntries(idsArg) ==
  With(idsArg, LAMBDA ids :
    IF ids = << >> THEN << >> ELSE << logbookEntryById(Head(ids)) >> \o MapEntries(Tail(ids)))

getLogbookEntriesForChallenge(challengeId) ==
  MapEntries(Cached(challengeToLogbook, challengeId))

\* how many times the build loop pushed this challenge for this entry
RECURSIVE Occurrences(_, _)
Occurrences(idsArg, idArg) ==
  With2(idsArg, idArg, LAMBDA ids, id :
    IF ids = << >> THEN << >>
    ELSE ( IF Head(ids) = id THEN << id >> ELSE << >> ) \o Occurrences(Tail(ids), id))

\* the ids the build loop pushes for one entry, over the challenges from i on
RECURSIVE challengesLinkedFrom(_, _)
challengesLinkedFrom(iArg, entryIdArg) ==
  With2(iArg, entryIdArg, LAMBDA i, entryId :
    IF i > Len(challenges) THEN << >>
    ELSE With(Len(Occurrences(linkedLogbookIds(challenges[i].unlocks), entryId)), LAMBDA n :
           [ k \in 1..n |-> challenges[i].id ] \o challengesLinkedFrom(i + 1, entryId)))

\* mapping.logbookToChallenge, built once: entry id -> ids of its linked challenges
logbookToChallenge ==
  { <<e.id, challengesLinkedFrom(1, e.id)>> : e \in Entries }

RECURSIVE MapChallenges(_)
MapChallenges(idsArg) ==
  With(idsArg, LAMBDA ids :
    IF ids = << >> THEN << >> ELSE << challengeById(Head(ids)) >> \o MapChallenges(Tail(ids)))

\* variant: an entry of any category is related to the challenges of its own DLC
challengesOfSameDlc(entryId) ==
  SelectSeq(challenges, LAMBDA c : c.dlc = logbookEntryById(entryId).dlc)

\* variant: every challenge of the catalog counts as related to the entry
allChallengesForLogbookEntry(entryId) == challenges

getChallengesForLogbookEntry(entryId) ==
  MapChallenges(Cached(logbookToChallenge, entryId))

\* variant: the comparison with the excluded achievement is inverted
isProvidedByExcludedChallenge(entry, excludeAchievementId, unlockedAchievements) ==
  With2(getChallengesForLogbookEntry(entry.id), Range(unlockedAchievements),
        LAMBDA relatedChallenges, held :
    \E i \in 1..Len(relatedChallenges) :
       /\ relatedChallenges[i].achievement = excludeAchievementId
       /\ relatedChallenges[i].achievement \in held)

isLogbookEntryProvidedByOtherChallenge(entry, excludeAchievementId, unlockedAchievements) ==
  With2(getChallengesForLogbookEntry(entry.id), Range(unlockedAchievements),
        LAMBDA relatedChallenges, held :
    \E i \in 1..Len(relatedChallenges) :
       /\ relatedChallenges[i].achievement # excludeAchievementId
       /\ relatedChallenges[i].achievement \in held)

\* variant: no single-entry shortcut, and the entry being disabled is not skipped
shouldDisableChallengeCountingEntry(challenge, entryBeingDisabled, currentViewedViewables) ==
  With2(getLogbookEntriesForChallenge(challenge.id), Range(currentViewedViewables),
        LAMBDA relatedEntries, viewed :
    ~ \E i \in 1..Len(relatedEntries) : relatedEntries[i].unlockId \in viewed)

\* variant: every related challenge is disabled, whatever the snapshot holds
shouldDisableChallengeAlways(challenge, entryBeingDisabled, currentViewedViewables) == TRUE

shouldDisableChallengeForEntry(challenge, entryBeingDisabled, currentViewedViewables) ==
  With2(getLogbookEntriesForChallenge(challenge.id), Range(currentViewedViewables),
        LAMBDA relatedEntries, viewed :
    IF Len(relatedEntries) = 1 THEN TRUE
    ELSE ~ \E i \in 1..Len(relatedEntries) :
             /\ relatedEntries[i].id # entryBeingDisabled.id
             /\ relatedEntries[i].unlockId \in viewed)

(***************************************************************************)
(* Unlock-state model: the SaveData record and the "is unlocked" predicate.*)
(***************************************************************************)
Collections ==
  { "achievements", "unviewedAchievements", "viewedUnlockables",
    "unlocks", "viewedViewables", "discoveredPickups" }

\* name.startsWith("Logs.") || name.startsWith("Log.")
isFullLogString(name) == StartsWith(name, "Logs.") \/ StartsWith(name, "Log.")

\* lines 452-464: the body name the failsafe derives from the entry
failsafeBodyName(entry) ==
  With(Split(entry.unlockId, "."), LAMBDA parts :
    IF StartsWith(entry.unlockId, "Logs.")
    THEN ( IF Len(parts) >= 2 THEN StripSuffix(parts[2], ".0") ELSE "" )
    ELSE IF Includes(entry.unlockId, "/Logbook/")
         THEN getInternalBodyName(entry.unlockId)
         ELSE "")

convertToViewableIdCache == { <<e, convertToViewableId(e)>> : e \in Entries }
failsafeBodyNameCache == { <<e, failsafeBodyName(e)>> : e \in Entries }
failsafeLogStatCache == { <<e, "Logs." \o failsafeBodyName(e) \o "Body.0">> : e \in Entries }

\* variant: a counter that names the body of the entry counts as evidence of unlock
isLogbookEntryUnlockedByCounters(saveData, entry) ==
  \/ entry.unlockId \in Range(saveData.unlocks)
  \/ entry.unlockId \in Range(saveData.viewedViewables)
  \/ entry.pickupId # "" /\ entry.pickupId \in Range(saveData.discoveredPickups)
  \/ /\ Cached(failsafeBodyNameCache, entry) # ""
     /\ \E p \in saveData.stats : Includes(p[1], Cached(failsafeBodyNameCache, entry))

isLogbookEntryUnlocked(saveData, entry) ==
  LET aliases == getLogbookAliases(entry.unlockId)
      viewableId == Cached(convertToViewableIdCache, entry)
      dronePickupId == getDronePickupId(entry.unlockId)
      bodyName == Cached(failsafeBodyNameCache, entry)
      logStat == Cached(failsafeLogStatCache, entry)
  IN \/ entry.unlockId \in Range(saveData.unlocks)
     \/ entry.unlockId \in Range(saveData.viewedViewables)
     \/ \E i \in 1..Len(aliases) : aliases[i] \in Range(saveData.viewedViewables)
     \/ viewableId # "" /\ viewableId \in Range(saveData.viewedViewables)
     \/ entry.pickupId # "" /\ entry.pickupId \in Range(saveData.discoveredPickups)
     \/ /\ entry.category = "drones" /\ entry.pickupId = ""
        /\ dronePickupId # "" /\ dronePickupId \in Range(saveData.discoveredPickups)
     \/ /\ bodyName # ""
        /\ IF isFullLogString(bodyName)
           THEN bodyName \in Range(saveData.unlocks)
           ELSE MapHas(saveData.stats, logStat) \/ logStat \in Range(saveData.unlocks)

(***************************************************************************)
(* Stat projection (updateLogbookStats).                                   *)
(***************************************************************************)
\* overrideName.replace(/^Logs\./, "").replace(/^Log\./, "").replace(/\.0$/, "")
stripLogDecoration(name) ==
  StripSuffix(StripPrefix(StripPrefix(name, "Logs."), "Log."), ".0")

\* lines 656-686: the body name and the full log string resolved for an entry
resolveLogNames(entry) ==
  With2(getInternalBodyName(entry.unlockId), Split(entry.unlockId, "."),
        LAMBDA internal, parts :
    IF StartsWith(entry.unlockId, "Logs.")
    THEN IF internal # "" /\ isFullLogString(internal)
         THEN [ bodyName |-> stripLogDecoration(internal), fullLogString |-> internal ]
         ELSE [ bodyName |-> IF Len(parts) >= 2
                             THEN StripSuffix(StripSuffix(parts[2], ".0"), "Body")
                             ELSE "",
                fullLogString |-> "" ]
    ELSE IF isFullLogString(internal)
         THEN [ bodyName |-> stripLogDecoration(internal), fullLogString |-> internal ]
         ELSE [ bodyName |-> internal, fullLogString |-> "" ])

\* variant: only the stage itself, without the numbered variants of artifactworld
stagesToUnlockStageOnly(bodyName) == << ToLowerCase(bodyName) >>

\* stagesToUnlock of an environments entry
stagesToUnlock(bodyName) ==
  With(ToLowerCase(bodyName), LAMBDA stageName :
    << stageName >>
    \o ( IF Includes(stageName, "artifactworld")
         THEN << "artifactworld01", "artifactworld02", "artifactworld03", "artifactworld04" >>
         ELSE << >> )
    \o ( IF stageName = "moon" \/ stageName = "moon2" THEN << "moon2" >> ELSE << >> ))

RECURSIVE Prefixed(_, _)
Prefixed(prefixArg, namesArg) ==
  With2(prefixArg, namesArg, LAMBDA prefix, names :
    IF names = << >> THEN << >>
    ELSE << prefix \o Head(names) >> \o Prefixed(prefix, Tail(names)))

\* logUnlock of a monsters / survivors / drones entry
logUnlockOf(names) ==
  IF names.fullLogString # "" THEN names.fullLogString
  ELSE "Logs." \o ( IF EndsWith(names.bodyName, "Body") THEN names.bodyName
                    ELSE names.bodyName \o "Body" ) \o ".0"

statBodyNameOf(names) ==
  IF ~ EndsWith(names.bodyName, "Body") /\ ~ Includes(names.fullLogString, "SolusHeart")
  THEN names.bodyName \o "Body" ELSE names.bodyName

BodyCategories == { "monsters", "survivors", "drones" }

RECURSIVE WithValue(_, _)
WithValue(keysArg, vArg) ==
  With2(keysArg, vArg, LAMBDA keys, v :
    IF keys = << >> THEN << >> ELSE << <<Head(keys), v>> >> \o WithValue(Tail(keys), v))

\* for (const stage of stagesToUnlock) { stats.set(visited, "1"); stats.set(cleared, "1") }
RECURSIVE stageCounters(_)
stageCounters(stagesArg) ==
  With(stagesArg, LAMBDA stages :
    IF stages = << >> THEN << >>
    ELSE << <<"totalTimesVisited." \o Head(stages), "1">>,
            <<"totalTimesCleared." \o Head(stages), "1">> >> \o stageCounters(Tail(stages)))

noProjection == [ unlocks |-> << >>, stats |-> << >> ]

\* the enable branch: the ids it adds to unlocks and the <<key, value>> pairs it sets, in order
enableProjection(entry) ==
  With(resolveLogNames(entry), LAMBDA names :
    With2(logUnlockOf(names), statBodyNameOf(names), LAMBDA logUnlock, statBodyName :
      IF names.bodyName = "" /\ names.fullLogString = "" THEN noProjection
      ELSE IF entry.category = "environments"
      THEN With(stagesToUnlock(names.bodyName), LAMBDA stages :
             [ unlocks |-> Prefixed("Logs.Stages.", stages), stats |-> stageCounters(stages) ])
      ELSE IF entry.category \notin BodyCategories THEN noProjection
      ELSE IF logUnlock = "Log.SolusHeart" THEN [ unlocks |-> << logUnlock >>, stats |-> << >> ]
      ELSE IF entry.category = "drones"
      THEN [ unlocks |-> << logUnlock >>,
             stats |-> << <<"timesSummoned." \o statBodyName, "1">>,
                          <<"totalTimeAlive." \o statBodyName, "1">> >> ]
      ELSE IF entry.category = "monsters"
      THEN [ unlocks |-> << logUnlock >>,
             stats |-> << <<"killsAgainst." \o statBodyName, "1">>,
                          <<"deathsFrom." \o statBodyName, "0">> >>
                       \o ( IF logUnlock = "Logs.MiniVoidRaidCrab"
                            THEN WithValue(<< "killsAgainst.MiniVoidRaidCrabBodyBase",
                                              "killsAgainst.MiniVoidRaidCrabBodyPhase1",
                                              "killsAgainst.MiniVoidRaidCrabBodyPhase2",
                                              "killsAgainst.MiniVoidRaidCrabBodyPhase3" >>, "1")
                            ELSE << >> ) ]
      ELSE [ unlocks |-> << logUnlock >>,
             stats |-> << <<"totalTimeAlive." \o statBodyName, "1">>,
                          <<"timesPicked." \o statBodyName, "1">>,
                          <<"totalWins." \o statBodyName, "1">> >> ]))

\* variant: the disable branch deletes the unlock ids and leaves the counters
disableProjectionKeepingCounters(entry) ==
  [ unlocks |-> enableProjection(entry).unlocks, stats |-> << >> ]

\* the disable branch: the ids it deletes from unlocks and the counter keys it deletes
disableProjection(entry) ==
  With(resolveLogNames(entry), LAMBDA names :
    With2(logUnlockOf(names), statBodyNameOf(names), LAMBDA logUnlock, statBodyName :
      IF names.bodyName = "" /\ names.fullLogString = "" THEN noProjection
      ELSE IF entry.category = "environments"
      THEN With(Prefixed("Logs.Stages.", stagesToUnlock(names.bodyName)), LAMBDA keys :
             [ unlocks |-> keys, stats |-> keys ])
      ELSE IF entry.category \notin BodyCategories THEN noProjection
      ELSE IF logUnlock = "Log.SolusHeart" THEN [ unlocks |-> << logUnlock >>, stats |-> << >> ]
      ELSE IF entry.category = "drones"
      THEN [ unlocks |-> << logUnlock >>,
             stats |-> << "timesSummoned." \o statBodyName, "totalTimeAlive." \o statBodyName >> ]
      ELSE IF entry.category = "monsters"
      THEN [ unlocks |-> << logUnlock >>,
             stats |-> << "killsAgainst." \o statBodyName, "deathsFrom." \o statBodyName >> ]
      ELSE [ unlocks |-> << logUnlock >>,
             stats |-> << "totalTimeAlive." \o statBodyName, "timesPicked." \o statBodyName,
                          "totalWins." \o statBodyName >> ]))

enableProjectionCache == { <<e, enableProjection(e)>> : e \in Entries }
disableProjectionCache == { <<e, disableProjection(e)>> : e \in Entries }

\* returns the two collections it mutates in place
updateLogbookStats(entry, enabled, unlocks, stats) ==
  IF enabled
  THEN With(Cached(enableProjectionCache, entry), LAMBDA added :
         [ unlocks |-> AddAll(unlocks, added.unlocks),
           stats |-> MapSetPairs(stats, added.stats) ])
  ELSE With(Cached(disableProjectionCache, entry), LAMBDA gone :
         [ unlocks |-> DeleteAll(unlocks, gone.unlocks),
           stats |-> MapDeleteAll(stats, gone.stats) ])

(***************************************************************************)
(* Synchronization engine.                                                 *)
(***************************************************************************)
RECURSIVE UnlockIdsOf(_)
UnlockIdsOf(entriesArg) ==
  With(entriesArg, LAMBDA entries :
    IF entries = << >> THEN << >>
    ELSE << Head(entries).unlockId >> \o UnlockIdsOf(Tail(entries)))

\* variant: the pickup ids of the related entries are not collected
PickupIdsDropped(entriesArg) == << >>

\* the pickup ids of the entries that have one
RECURSIVE PickupIdsOf(_)
PickupIdsOf(entriesArg) ==
  With(entriesArg, LAMBDA entries :
    IF entries = << >> THEN << >>
    ELSE ( IF Head(entries).pickupId # "" THEN << Head(entries).pickupId >> ELSE << >> )
         \o PickupIdsOf(Tail(entries)))

\* for each challenge in order: its unlock ids
RECURSIVE OwnUnlocksOf(_)
OwnUnlocksOf(csArg) ==
  With(csArg, LAMBDA cs :
    IF cs = << >> THEN << >> ELSE Head(cs).unlocks \o OwnUnlocksOf(Tail(cs)))

\* the achievement ids of a list of challenges
AchievementsOf(csArg) ==
  With(csArg, LAMBDA cs : [ k \in 1..Len(cs) |-> cs[k].achievement ])

\* variant: the filter is inverted and keeps the entries another held challenge provides
StillProvided(entries, achievementId, achievements) ==
  With(achievements, LAMBDA held :
    SelectSeq(entries,
              LAMBDA e : isLogbookEntryProvidedByOtherChallenge(e, achievementId, held)))

\* variant: every linked entry is removed, provided by another held challenge or not
AllRelatedEntries(entriesArg, achievementIdArg, achievementsArg) == entriesArg

\* variant: no linked entry is removed when an achievement is disabled
NoRelatedEntries(entriesArg, achievementIdArg, achievementsArg) == << >>

\* the entries of relatedEntries that no other held challenge provides
RECURSIVE NotProvided(_, _, _)
NotProvided(entriesArg, achievementIdArg, achievementsArg) ==
  With2(entriesArg, achievementsArg, LAMBDA entries, achievements :
    IF entries = << >> THEN << >>
    ELSE ( IF isLogbookEntryProvidedByOtherChallenge(Head(entries), achievementIdArg,
                                                     achievements)
           THEN << >> ELSE << Head(entries) >> )
         \o NotProvided(Tail(entries), achievementIdArg, achievements))

toggleAchievement(saveDataArg, achievementId, enabled) ==
  With2(saveDataArg, findChallenge(achievementId), LAMBDA saveData, hit :
    With2(IF hit.found THEN getLogbookEntriesForChallenge(hit.challenge.id) ELSE << >>,
          IF hit.found THEN hit.challenge.unlocks ELSE << >>,
          LAMBDA relatedEntries, ownUnlocks :
      IF enabled
      THEN [ saveData EXCEPT
               !.achievements = SetAdd(NewSet(saveData.achievements), achievementId),
               !.unviewedAchievements =
                  SetAdd(NewSet(saveData.unviewedAchievements), achievementId),
               !.viewedUnlockables = AddAll(NewSet(saveData.viewedUnlockables), ownUnlocks),
               !.unlocks = AddAll(AddAll(NewSet(saveData.unlocks), ownUnlocks),
                                  UnlockIdsOf(relatedEntries)),
               !.viewedViewables =
                  AddAll(NewSet(saveData.viewedViewables), UnlockIdsOf(relatedEntries)),
               !.discoveredPickups =
                  AddAll(NewSet(saveData.discoveredPickups), PickupIdsOf(relatedEntries)) ]
      ELSE With(SetDelete(NewSet(saveData.achievements), achievementId), LAMBDA achievements :
             With(NotProvided(relatedEntries, achievementId, achievements), LAMBDA removed :
               [ saveData EXCEPT
                   !.achievements = achievements,
                   !.unviewedAchievements =
                      SetDelete(NewSet(saveData.unviewedAchievements), achievementId),
                   !.viewedUnlockables =
                      DeleteAll(NewSet(saveData.viewedUnlockables), ownUnlocks),
                   !.unlocks = DeleteAll(DeleteAll(NewSet(saveData.unlocks), ownUnlocks),
                                         UnlockIdsOf(removed)),
                   !.viewedViewables =
                      DeleteAll(NewSet(saveData.viewedViewables), UnlockIdsOf(removed)),
                   !.discoveredPickups =
                      DeleteAll(NewSet(saveData.discoveredPickups), PickupIdsOf(removed)) ]))))

\* allowedDLCs: present = FALSE stands for undefined; map holds the <<tag, boolean>> pairs
NoFilter == [ present |-> FALSE, map |-> {} ]

\* variant: a DLC is excluded unless the filter enables it, also when there is no filter
dlcExcludedUnlessEnabled(allowedDLCs, dlc) ==
  dlc # "base" /\ <<dlc, TRUE>> \notin allowedDLCs.map

\* variant: the filter excludes nothing
dlcNeverExcluded(allowedDLCs, dlc) == FALSE

\* allowedDLCs && x.dlc !== "base" && allowedDLCs[x.dlc] === false
dlcExcluded(allowedDLCs, dlc) ==
  allowedDLCs.present /\ dlc # "base" /\ <<dlc, FALSE>> \in allowedDLCs.map

\* one pass of the entry loop of unlockAllLogbook, from entry i on
RECURSIVE unlockAllLogbookLoop(_, _, _)
unlockAllLogbookLoop(iArg, accArg, allowedDLCs) ==
  With2(iArg, accArg, LAMBDA i, acc :
    IF i > Len(logbookEntries) THEN acc
    ELSE With(logbookEntries[i], LAMBDA entry :
      IF dlcExcluded(allowedDLCs, entry.dlc)
      THEN unlockAllLogbookLoop(i + 1, acc, allowedDLCs)
      ELSE With(SelectSeq(getChallengesForLogbookEntry(entry.id),
                          LAMBDA c : ~ dlcExcluded(allowedDLCs, c.dlc)), LAMBDA allowed :
        With(updateLogbookStats(entry, TRUE,
               AddAll(SetAdd(acc.unlocks, entry.unlockId), OwnUnlocksOf(allowed)),
               acc.stats), LAMBDA projected :
          unlockAllLogbookLoop(i + 1,
            [ acc EXCEPT
                !.unlocks = projected.unlocks,
                !.stats = projected.stats,
                !.viewedViewables =
                   AddAll(SetAdd(acc.viewedViewables, entry.unlockId),
                          getLogbookAliases(entry.unlockId)),
                !.discoveredPickups =
                   IF entry.pickupId # "" THEN SetAdd(acc.discoveredPickups, entry.pickupId)
                   ELSE acc.discoveredPickups,
                !.achievements = AddAll(acc.achievements, AchievementsOf(allowed)),
                !.viewedUnlockables = AddAll(acc.viewedUnlockables, OwnUnlocksOf(allowed)) ],
            allowedDLCs)))))

\* variant: the bulk enable leaves unviewedAchievements as it found it
unlockAllLogbookKeepingUnviewed(saveDataArg, allowedDLCs) ==
  With(saveDataArg, LAMBDA saveData :
    [ unlockAllLogbookLoop(1, [ saveData EXCEPT
                                  !.unlocks = NewSet(saveData.unlocks),
                                  !.viewedViewables = NewSet(saveData.viewedViewables),
                                  !.discoveredPickups = NewSet(saveData.discoveredPickups),
                                  !.achievements = NewSet(saveData.achievements),
                                  !.viewedUnlockables = NewSet(saveData.viewedUnlockables) ],
                           allowedDLCs)
      EXCEPT !.unviewedAchievements = NewSet(saveData.unviewedAchievements) ])

unlockAllLogbook(saveDataArg, allowedDLCs) ==
  With(saveDataArg, LAMBDA saveData :
    [ unlockAllLogbookLoop(1, [ saveData EXCEPT
                                  !.unlocks = NewSet(saveData.unlocks),
                                  !.viewedViewables = NewSet(saveData.viewedViewables),
                                  !.discoveredPickups = NewSet(saveData.discoveredPickups),
                                  !.achievements = NewSet(saveData.achievements),
                                  !.viewedUnlockables = NewSet(saveData.viewedUnlockables) ],
                           allowedDLCs)
      EXCEPT !.unviewedAchievements = << >> ])

\* the challenge loop of unlockAll, from challenge i on
RECURSIVE unlockAllLoop(_, _, _)
unlockAllLoop(iArg, accArg, allowedDLCs) ==
  With2(iArg, accArg, LAMBDA i, acc :
    IF i > Len(challenges) THEN acc
    ELSE With(challenges[i], LAMBDA challenge :
      IF dlcExcluded(allowedDLCs, challenge.dlc)
      THEN unlockAllLoop(i + 1, acc, allowedDLCs)
      ELSE With(getLogbookEntriesForChallenge(challenge.id), LAMBDA relatedEntries :
        unlockAllLoop(i + 1,
          [ acc EXCEPT
              !.achievements = SetAdd(acc.achievements, challenge.achievement),
              !.viewedUnlockables = AddAll(acc.viewedUnlockables, challenge.unlocks),
              !.unlocks = AddAll(AddAll(acc.unlocks, challenge.unlocks),
                                 UnlockIdsOf(relatedEntries)),
              !.viewedViewables = AddAll(acc.viewedViewables, UnlockIdsOf(relatedEntries)),
              !.discoveredPickups =
                 AddAll(acc.discoveredPickups, PickupIdsOf(relatedEntries)) ],
          allowedDLCs))))

\* variant: the challenge loop alone, without the pass over the logbook catalog
unlockAllChallengesOnly(saveDataArg, allowedDLCs) ==
  With(saveDataArg, LAMBDA saveData :
    [ unlockAllLoop(1, [ saveData EXCEPT
                           !.achievements = NewSet(saveData.achievements),
                           !.viewedUnlockables = NewSet(saveData.viewedUnlockables),
                           !.unlocks = NewSet(saveData.unlocks),
                           !.viewedViewables = NewSet(saveData.viewedViewables),
                           !.discoveredPickups = NewSet(saveData.discoveredPickups) ],
                    allowedDLCs)
      EXCEPT !.unviewedAchievements = << >> ])

\* variant: the pass over the logbook catalog alone, without the challenge loop
unlockAllLogbookOnly(saveDataArg, allowedDLCs) == unlockAllLogbook(saveDataArg, allowedDLCs)

unlockAll(saveDataArg, allowedDLCs) ==
  With(saveDataArg, LAMBDA saveData :
    With([ unlockAllLoop(1, [ saveData EXCEPT
                                !.achievements = NewSet(saveData.achievements),
                                !.viewedUnlockables = NewSet(saveData.viewedUnlockables),
                                !.unlocks = NewSet(saveData.unlocks),
                                !.viewedViewables = NewSet(saveData.viewedViewables),
                                !.discoveredPickups = NewSet(saveData.discoveredPickups) ],
                         allowedDLCs)
           EXCEPT !.unviewedAchievements = << >> ],
         LAMBDA saveDataWithAchievements :
           unlockAllLogbook(saveDataWithAchievements, allowedDLCs)))

\* the counter-family prefixes lockAll deletes
lockAllPrefixes ==
  << "Logs.", "timesSummoned.", "totalTimeAlive.", "killsAgainst.",
     "minionKillsAs.", "deathsFrom.", "timesPicked.", "totalWins." >>

\* variant: only the first prefix of the list is tested
hasFirstPrefix(key, prefixes) == StartsWith(key, prefixes[1])

hasPrefixIn(key, prefixes) ==
  \E i \in 1..Len(prefixes) : StartsWith(key, prefixes[i])

\* variant: the whole counter map is emptied
lockAllClearingCounters(saveData) ==
  [ saveData EXCEPT
      !.achievements = << >>, !.unviewedAchievements = << >>, !.viewedUnlockables = << >>,
      !.unlocks = << >>, !.viewedViewables = << >>, !.discoveredPickups = << >>,
      !.stats = {} ]

\* variant: the reset leaves unviewedAchievements as it found it
lockAllKeepingUnviewed(saveDataArg) ==
  With(saveDataArg, LAMBDA saveData :
    [ saveData EXCEPT
        !.achievements = << >>,
        !.viewedUnlockables = << >>,
        !.unlocks = << >>,
        !.viewedViewables = << >>,
        !.discoveredPickups = << >>,
        !.stats = { p \in saveData.stats : ~ hasPrefixIn(p[1], lockAllPrefixes) } ])

lockAll(saveDataArg) ==
  With(saveDataArg, LAMBDA saveData :
    [ saveData EXCEPT
        !.achievements = << >>,
        !.unviewedAchievements = << >>,
        !.viewedUnlockables = << >>,
        !.unlocks = << >>,
        !.viewedViewables = << >>,
        !.discoveredPickups = << >>,
        !.stats = { p \in saveData.stats : ~ hasPrefixIn(p[1], lockAllPrefixes) } ])

\* for each challenge in order: its unlock ids, then the canonical ids of its entries
RECURSIVE cascadeUnlockIds(_)
cascadeUnlockIds(csArg) ==
  With(csArg, LAMBDA cs :
    IF cs = << >> THEN << >>
    ELSE Head(cs).unlocks \o UnlockIdsOf(getLogbookEntriesForChallenge(Head(cs).id))
         \o cascadeUnlockIds(Tail(cs)))

\* for each challenge in order: all the entries it links to
RECURSIVE cascadeEntries(_)
cascadeEntries(csArg) ==
  With(csArg, LAMBDA cs :
    IF cs = << >> THEN << >>
    ELSE getLogbookEntriesForChallenge(Head(cs).id) \o cascadeEntries(Tail(cs)))

toggleLogbookEntry(saveDataArg, entry, enabled) ==
  With2(saveDataArg, getChallengesForLogbookEntry(entry.id),
        LAMBDA saveData, relatedChallenges :
    With2(getLogbookAliases(entry.unlockId),
          IF entry.pickupId # "" THEN << entry.pickupId >> ELSE << >>,
          LAMBDA aliases, ownPickup :
      IF enabled
      THEN With2(updateLogbookStats(entry, TRUE,
                   AddAll(SetAdd(NewSet(saveData.unlocks), entry.unlockId),
                          cascadeUnlockIds(relatedChallenges)),
                   saveData.stats),
                 cascadeEntries(relatedChallenges),
                 LAMBDA projected, relatedEntries :
             [ saveData EXCEPT
                 !.unlocks = projected.unlocks,
                 !.stats = projected.stats,
                 !.viewedViewables =
                    AddAll(AddAll(SetAdd(NewSet(saveData.viewedViewables), entry.unlockId),
                                  UnlockIdsOf(relatedEntries)), aliases),
                 !.discoveredPickups =
                    AddAll(AddAll(NewSet(saveData.discoveredPickups), ownPickup),
                           PickupIdsOf(relatedEntries)),
                 !.achievements =
                    AddAll(NewSet(saveData.achievements), AchievementsOf(relatedChallenges)),
                 !.unviewedAchievements =
                    AddAll(NewSet(saveData.unviewedAchievements),
                           AchievementsOf(relatedChallenges)),
                 !.viewedUnlockables =
                    AddAll(NewSet(saveData.viewedUnlockables),
                           OwnUnlocksOf(relatedChallenges)) ])
      ELSE With(NewSet(saveData.viewedViewables), LAMBDA viewedViewables :
             With(SelectSeq(relatedChallenges,
                    LAMBDA c : shouldDisableChallengeForEntry(c, entry, viewedViewables)),
                  LAMBDA challengesToDisable :
               With2(updateLogbookStats(entry, FALSE,
                       SetDelete(NewSet(saveData.unlocks), entry.unlockId), saveData.stats),
                     cascadeEntries(challengesToDisable),
                     LAMBDA projected, relatedEntries :
                 [ saveData EXCEPT
                     !.unlocks =
                        DeleteAll(projected.unlocks, cascadeUnlockIds(challengesToDisable)),
                     !.stats = projected.stats,
                     !.viewedViewables =
                        DeleteAll(DeleteAll(SetDelete(viewedViewables, entry.unlockId),
                                            aliases),
                                  UnlockIdsOf(relatedEntries)),
                     !.discoveredPickups =
                        DeleteAll(DeleteAll(NewSet(saveData.discoveredPickups), ownPickup),
                                  PickupIdsOf(relatedEntries)),
                     !.achievements =
                        DeleteAll(NewSet(saveData.achievements),
                                  AchievementsOf(challengesToDisable)),
                     !.unviewedAchievements =
                        DeleteAll(NewSet(saveData.unviewedAchievements),
                                  AchievementsOf(challengesToDisable)),
                     !.viewedUnlockables =
                        DeleteAll(NewSet(saveData.viewedUnlockables),
                                  OwnUnlocksOf(challengesToDisable)) ])))))

\* lines 1009-1025: the names lockAllLogbook resolves for an entry
lockAllLogNames(entry) ==
  With2(getInternalBodyName(entry.unlockId), Split(entry.unlockId, "."),
        LAMBDA internal, parts :
    IF StartsWith(entry.unlockId, "Logs.")
    THEN [ bodyName |-> IF Len(parts) >= 2
                        THEN StripSuffix(StripSuffix(parts[2], ".0"), "Body") ELSE "",
           fullLogString |-> "" ]
    ELSE IF isFullLogString(internal)
         THEN [ bodyName |-> stripLogDecoration(internal), fullLogString |-> internal ]
         ELSE [ bodyName |-> internal, fullLogString |-> "" ])

\* lines 1028-1036: the key deleted from unlocks and from the counter map, "" for none
lockAllKey(entry, names) ==
  IF entry.category = "environments"
  THEN "Logs.Stages." \o ToLowerCase(names.bodyName)
  ELSE IF entry.category \in BodyCategories /\ names.fullLogString = ""
  THEN "Logs." \o names.bodyName \o "Body.0"
  ELSE names.fullLogString

\* lines 1038-1077: the counters deleted for an entry of the three body categories
lockAllCounters(entry, names) ==
  With(StripSuffix(names.bodyName, "Body"), LAMBDA statBodyName :
    IF entry.category = "drones"
    THEN << "timesSummoned." \o statBodyName \o "Body",
            "totalTimeAlive." \o statBodyName \o "Body" >>
    ELSE IF entry.category = "monsters"
    THEN << "killsAgainst." \o statBodyName \o "Body", "deathsFrom." \o statBodyName \o "Body" >>
    ELSE IF entry.category = "survivors"
    THEN << "totalTimeAlive." \o statBodyName \o "Body", "timesPicked." \o statBodyName \o "Body",
            "totalWins." \o statBodyName \o "Body" >>
    ELSE << >>)

\* lines 1001-1088: what one pass of the entry loop deletes from each collection
lockAllProjection(entry) ==
  With(lockAllLogNames(entry), LAMBDA names :
    With(names.bodyName # "" \/ names.fullLogString # "", LAMBDA resolved :
      With(IF resolved THEN lockAllKey(entry, names) ELSE "", LAMBDA key :
        With(IF key # "" THEN << key >> ELSE << >>, LAMBDA keys :
          [ unlocks |-> << entry.unlockId >> \o keys,
            viewedViewables |-> << entry.unlockId >> \o getLogbookAliases(entry.unlockId),
            stats |-> ( IF resolved THEN lockAllCounters(entry, names) ELSE << >> ) \o keys,
            discoveredPickups |->
               IF entry.pickupId # "" THEN << entry.pickupId >> ELSE << >> ]))))

lockAllProjectionCache == { <<e, lockAllProjection(e)>> : e \in Entries }

\* the entry loop of lockAllLogbook, from entry i on
RECURSIVE lockAllLogbookLoop(_, _)
lockAllLogbookLoop(iArg, accArg) ==
  With2(iArg, accArg, LAMBDA i, acc :
    IF i > Len(logbookEntries) THEN acc
    ELSE With(logbookEntries[i], LAMBDA entry :
      With(Cached(lockAllProjectionCache, entry), LAMBDA gone :
        lockAllLogbookLoop(i + 1,
          [ unlocks |-> DeleteAll(acc.unlocks, gone.unlocks),
            stats |-> MapDeleteAll(acc.stats, gone.stats),
            viewedViewables |-> DeleteAll(acc.viewedViewables, gone.viewedViewables),
            discoveredPickups |-> DeleteAll(acc.discoveredPickups, gone.discoveredPickups),
            challengesToDisable |->
               AddAll(acc.challengesToDisable,
                      AchievementsOf(getChallengesForLogbookEntry(entry.id))) ]))))

\* variant: the unlock ids of every challenge of the catalog are dropped
unlocksOfEveryChallenge(idsArg) == OwnUnlocksOf(challenges)

\* the unlock ids of the challenges found for a list of achievement ids
RECURSIVE unlocksOfAchievements(_)
unlocksOfAchievements(idsArg) ==
  With(idsArg, LAMBDA ids :
    IF ids = << >> THEN << >>
    ELSE With(findChallenge(Head(ids)), LAMBDA hit :
           ( IF hit.found THEN hit.challenge.unlocks ELSE << >> )
           \o unlocksOfAchievements(Tail(ids))))

\* variant: every collection and every counter is dropped
lockAllLogbookDroppingCounters(saveData) ==
  [ lockAll(saveData) EXCEPT !.stats = {} ]

lockAllLogbook(saveDataArg) ==
  With(saveDataArg, LAMBDA saveData :
    With(lockAllLogbookLoop(1, [ unlocks |-> NewSet(saveData.unlocks),
                                 viewedViewables |-> NewSet(saveData.viewedViewables),
                                 discoveredPickups |-> NewSet(saveData.discoveredPickups),
                                 stats |-> saveData.stats,
                                 challengesToDisable |-> << >> ]), LAMBDA done :
      With(unlocksOfAchievements(done.challengesToDisable), LAMBDA gone :
        [ saveData EXCEPT
            !.achievements =
               DeleteAll(NewSet(saveData.achievements), done.challengesToDisable),
            !.unviewedAchievements =
               DeleteAll(NewSet(saveData.unviewedAchievements), done.challengesToDisable),
            !.viewedUnlockables = DeleteAll(NewSet(saveData.viewedUnlockables), gone),
            !.unlocks = DeleteAll(done.unlocks, gone),
            !.viewedViewables = done.viewedViewables,
            !.discoveredPickups = done.discoveredPickups,
            !.stats = done.stats ])))

(***************************************************************************)
(* The editing session: a loaded save, then engine operations, each of     *)
(* which consumes the current SaveData and produces the next.              *)
(***************************************************************************)
VARIABLES
  saveData,   \* the SaveData the host currently holds
  pre,        \* the SaveData that was passed to the last operation
  last,       \* the last operation and its arguments
  input,      \* the object that was passed to the last operation, as it is after the call
  steps,      \* number of operations applied so far
  rawProfile, \* the parsed save file the host holds for the export
  filename,   \* the name the export is offered under
  reads       \* the files whose FileReader has not fired its load event yet, oldest first

vars == << saveData, pre, last, input, steps, rawProfile, filename, reads >>

\* Number of operations in one editing session
MaxSteps == 2

EmptyState ==
  [ name |-> "Survivor", coins |-> 0,
    achievements |-> << >>, unviewedAchievements |-> << >>, viewedUnlockables |-> << >>,
    unlocks |-> << >>, stats |-> {}, viewedViewables |-> << >>, discoveredPickups |-> << >> ]

\* a profile that has only progress counters and unrelated telemetry
CountersOnlyState ==
  [ EmptyState EXCEPT
      !.name = "Player", !.coins = 25,
      !.stats = { <<"totalGamesPlayed", "7">>, <<"killsAgainst.BeetleBody", "12">>,
                  <<"totalTimesVisited.artifactworld", "3">>, <<"Log.SolusHeart", "1">> } ]

\* a profile written by the game: legacy viewable paths, repeated elements, one held challenge
LegacyState ==
  [ EmptyState EXCEPT
      !.name = "Player", !.coins = 3,
      !.achievements = << "AutomationActivation", "AutomationActivation" >>,
      !.viewedUnlockables = << "Items.Squid", "Equipment.DroneBackup" >>,
      !.unlocks = << "Items.Squid", "Equipment.DroneBackup", "Skills.Commando.SlideJet" >>,
      !.viewedViewables = << "Items.Squid", "Equipment.DroneBackup",
                             "/Logbook/LOGBOOK_CATEGORY_DRONE/DRONE_CHIRP_BODY_NAME",
                             "/Survivors/Toolbot" >>,
      !.discoveredPickups = << "ItemIndex.Squid", "EquipmentIndex.DroneBackup",
                               "ItemIndex.Squid" >>,
      !.stats = { <<"totalGamesPlayed", "7">>, <<"timesSummoned.ChirpBody", "4">> } ]

\* a profile in which everything has been unlocked
CompleteState == unlockAll(EmptyState, NoFilter)

\* a profile with play progress for catalog content and nothing unlocked
ProgressOnlyState ==
  [ EmptyState EXCEPT
      !.name = "Player", !.coins = 11,
      !.stats = { <<"killsAgainst.BeetleBody", "40">>, <<"deathsFrom.BeetleBody", "2">>,
                  <<"timesSummoned.ChirpBody", "5">>, <<"totalTimeAlive.ToolbotBody", "900">>,
                  <<"timesPicked.ToolbotBody", "3">>, <<"totalWins.ToolbotBody", "1">>,
                  <<"totalTimesVisited.artifactworld", "2">>,
                  <<"totalTimesCleared.artifactworld", "1">> } ]

(***************************************************************************)
(* Survivor entries and the achievement enabled alongside them.            *)
(***************************************************************************)
SURVIVOR_LOGBOOK_TO_ACHIEVEMENT ==
  << <<"toolbot", "RepeatFirstTeleporter">>,
     <<"engineer", "Complete30StagesCareer">>,
     <<"mage", "FreeMage">>,
     <<"mercenary", "CompleteUnknownEnding">>,
     <<"treebot", "RescueTreebot">>,
     <<"loader", "DefeatSuperRoboBallBoss">>,
     <<"croco", "BeatArena">>,
     <<"captain", "CompleteMainEnding">>,
     <<"void-survivor", "CompleteVoidEnding">>,
     <<"chef", "ActivateChef">>,
     <<"false-son", "UnlockFalseSon">>,
     <<"drifter", "FreeDrifter">> >>

SURVIVOR_UNLOCKID_TO_ACHIEVEMENT ==
  << <<"/Logbook/LOGBOOK_CATEGORY_SURVIVOR/TOOLBOT_BODY_NAME", "RepeatFirstTeleporter">>,
     <<"/Logbook/LOGBOOK_CATEGORY_SURVIVOR/ENGI_BODY_NAME", "Complete30StagesCareer">>,
     <<"/Logbook/LOGBOOK_CATEGORY_SURVIVOR/MAGE_BODY_NAME", "FreeMage">>,
     <<"/Logbook/LOGBOOK_CATEGORY_SURVIVOR/MERC_BODY_NAME", "CompleteUnknownEnding">>,
     <<"/Logbook/LOGBOOK_CATEGORY_SURVIVOR/TREEBOT_BODY_NAME", "RescueTreebot">>,
     <<"/Logbook/LOGBOOK_CATEGORY_SURVIVOR/LOADER_BODY_NAME", "DefeatSuperRoboBallBoss">>,
     <<"/Logbook/LOGBOOK_CATEGORY_SURVIVOR/CROCO_BODY_NAME", "BeatArena">>,
     <<"/Logbook/LOGBOOK_CATEGORY_SURVIVOR/CAPTAIN_BODY_NAME", "CompleteMainEnding">>,
     <<"/Logbook/LOGBOOK_CATEGORY_SURVIVOR/VOIDSURVIVOR_BODY_NAME", "CompleteVoidEnding">>,
     <<"/Logbook/LOGBOOK_CATEGORY_SURVIVOR/CHEF_BODY_NAME", "ActivateChef">>,
     <<"/Logbook/LOGBOOK_CATEGORY_SURVIVOR/FALSESON_BODY_NAME", "UnlockFalseSon">>,
     <<"/Logbook/LOGBOOK_CATEGORY_SURVIVOR/DRIFTER_BODY_NAME", "FreeDrifter">> >>

\* the chain of if statements on entry.id; a later match overwrites an earlier one
survivorIdAliases ==
  << <<"voidfiend", "CompleteVoidEnding">>,
     <<"void-fiend", "CompleteVoidEnding">>,
     <<"mult", "RepeatFirstTeleporter">>,
     <<"rex", "RescueTreebot">>,
     <<"acrid", "BeatArena">> >>

\* the value of achievementId before the final find; "" stands for undefined
survivorAchievementId(entry) ==
  With(Lookup(SURVIVOR_UNLOCKID_TO_ACHIEVEMENT, entry.unlockId), LAMBDA byUnlockId :
    IF byUnlockId # "" THEN byUnlockId
    ELSE With(Lookup(SURVIVOR_LOGBOOK_TO_ACHIEVEMENT, entry.id), LAMBDA byId :
           IF byId # "" THEN byId ELSE Lookup(survivorIdAliases, entry.id)))

\* variant: the entry-id table is consulted before the viewable-path table
getAchievementByEntryIdFirst(entry) ==
  With(Lookup(SURVIVOR_LOGBOOK_TO_ACHIEVEMENT, entry.id), LAMBDA byId :
    With(IF byId # "" THEN byId
         ELSE Lookup(SURVIVOR_UNLOCKID_TO_ACHIEVEMENT, entry.unlockId), LAMBDA achievementId :
      IF entry.category # "survivors" \/ achievementId = ""
      THEN [ found |-> FALSE, challenge |-> challenges[1] ]
      ELSE findChallenge(achievementId)))

\* Found = FALSE stands for undefined
getAchievementForSurvivorLogbook(entry) ==
  IF entry.category # "survivors" THEN [ found |-> FALSE, challenge |-> challenges[1] ]
  ELSE With(survivorAchievementId(entry), LAMBDA achievementId :
         IF achievementId = "" THEN [ found |-> FALSE, challenge |-> challenges[1] ]
         ELSE findChallenge(achievementId))

\* variant: the handler also disables the achievement when the entry is disabled
handleToggleEntryBothWays(saveDataArg, entry, enabled) ==
  With(toggleLogbookEntry(saveDataArg, entry, enabled), LAMBDA newData :
    With(getAchievementForSurvivorLogbook(entry), LAMBDA achievement :
      IF entry.category = "survivors" /\ achievement.found
      THEN toggleAchievement(newData, achievement.challenge.achievement, enabled)
      ELSE newData))

\* the state handed to onSaveDataChange by the toggle handler of the logbook editor
handleToggleEntry(saveDataArg, entry, enabled) ==
  IF ~ enabled THEN toggleLogbookEntry(saveDataArg, entry, FALSE)
  ELSE With(toggleLogbookEntry(saveDataArg, entry, TRUE), LAMBDA newData :
         With(getAchievementForSurvivorLogbook(entry), LAMBDA achievement :
           IF entry.category = "survivors" /\ achievement.found
           THEN toggleAchievement(newData, achievement.challenge.achievement, TRUE)
           ELSE newData))

(***************************************************************************)
(* The raw profile (the parsed save file) and the two conversions between  *)
(* it and a SaveData.  A raw profile holds the UserProfile element: name   *)
(* and coins as text, the five lists as space-separated text, the stats    *)
(* element with its stat children (name attribute and text) and its unlock *)
(* children.  A child that occurs once and a child that occurs several     *)
(* times are both a sequence here; no child is the empty sequence.         *)
(***************************************************************************)
Digits == "0123456789"

\* n.toString() for a natural number
RECURSIVE NumberToString(_)
NumberToString(nArg) ==
  With(nArg, LAMBDA n :
    IF n < 10 THEN SubSeq(Digits, n + 1, n + 1)
    ELSE NumberToString(n \div 10) \o SubSeq(Digits, (n % 10) + 1, (n % 10) + 1))

\* the value of the leading decimal digits of str, from position i on
RECURSIVE ParseDigitsFrom(_, _, _)
ParseDigitsFrom(str, iArg, accArg) ==
  With2(iArg, accArg, LAMBDA i, acc :
    IF i > Len(str) THEN acc
    ELSE With(IndexOf(Digits, SubSeq(str, i, i)), LAMBDA d :
           IF d = 0 THEN acc ELSE ParseDigitsFrom(str, i + 1, acc * 10 + d - 1)))

\* parseInt(str, 10) on unsigned text; -1 stands for NaN
ParseInt(str) ==
  With(str, LAMBDA a :
    IF Len(a) = 0 \/ IndexOf(Digits, SubSeq(a, 1, 1)) = 0 THEN -1
    ELSE ParseDigitsFrom(a, 1, 0))

\* array.join(sep)
RECURSIVE Join(_, _)
Join(arrayArg, sep) ==
  With(arrayArg, LAMBDA array :
    IF array = << >> THEN ""
    ELSE IF Len(array) = 1 THEN array[1]
    ELSE array[1] \o sep \o Join(Tail(array), sep))

Whitespace == " \t\n\r"

\* s.trim()
RECURSIVE Trim(_)
Trim(sArg) ==
  With(sArg, LAMBDA s :
    IF Len(s) = 0 THEN s
    ELSE IF Includes(Whitespace, SubSeq(s, 1, 1)) THEN Trim(DropFirst(s, 1))
    ELSE IF Includes(Whitespace, SubSeq(s, Len(s), Len(s))) THEN Trim(DropLast(s, 1))
    ELSE s)

\* value.split(" ").map(trim).filter(nonempty); [] for an absent or empty value
parseSpaceSeparatedList(value) ==
  With(value, LAMBDA v :
    IF v = "" THEN << >>
    ELSE With(Split(v, " "), LAMBDA pieces :
           SelectSeq([ k \in 1..Len(pieces) |-> Trim(pieces[k]) ], LAMBDA w : Len(w) > 0)))

\* the elements of a finite set in some order
RECURSIVE SetToSeq(_)
SetToSeq(setArg) ==
  With(setArg, LAMBDA set :
    IF set = {} THEN << >>
    ELSE With(CHOOSE x \in set : TRUE, LAMBDA x : << x >> \o SetToSeq(set \ { x })))

\* the stat children that carry a name, as <<name, text>> pairs in document order
namedStats(stat) ==
  With(SelectSeq(stat, LAMBDA st : st.name # ""), LAMBDA named :
    [ k \in 1..Len(named) |-> << named[k].name, named[k].text >> ])

\* the parser is configured with parseTagValue: false, so coins is text
extractSaveData(raw) ==
  With(raw.UserProfile, LAMBDA profile :
    [ name |-> IF profile.name = "" THEN "Unknown" ELSE profile.name,
      coins |-> ParseInt(profile.coins),
      achievements |-> parseSpaceSeparatedList(profile.achievementsList),
      unviewedAchievements |-> parseSpaceSeparatedList(profile.unviewedAchievementsList),
      viewedUnlockables |-> parseSpaceSeparatedList(profile.viewedUnlockablesList),
      unlocks |-> profile.unlock,
      stats |-> MapSetPairs({}, namedStats(profile.stat)),
      viewedViewables |-> parseSpaceSeparatedList(profile.viewedViewables),
      discoveredPickups |-> parseSpaceSeparatedList(profile.discoveredPickups) ])

\* statsMap of applySaveData: the named stat children of the profile, overridden and
\* extended by the counter map; the order of the children is not modelled
finalStats(existing, stats) ==
  With2(MapSetPairs({}, namedStats(existing)), stats, LAMBDA kept, written :
    With(SetToSeq({ p \in kept : ~ MapHas(written, p[1]) } \cup written), LAMBDA ordered :
      [ k \in 1..Len(ordered) |-> [ name |-> ordered[k][1], text |-> ordered[k][2] ] ]))

applySaveData(raw, saveDataArg) ==
  With2(raw.UserProfile, saveDataArg, LAMBDA result, s :
    With(finalStats(result.stat, s.stats), LAMBDA final :
      [ raw EXCEPT !.UserProfile = [ result EXCEPT
          !.name = s.name,
          !.coins = NumberToString(s.coins),
          !.achievementsList = Join(s.achievements, " "),
          !.unviewedAchievementsList = Join(s.unviewedAchievements, " "),
          !.viewedUnlockablesList = Join(s.viewedUnlockables, " "),
          !.unlock = s.unlocks,
          !.stat = IF final = << >> THEN result.stat ELSE final,
          !.viewedViewables = Join(s.viewedViewables, " "),
          !.discoveredPickups = Join(s.discoveredPickups, " ") ] ]))

\* a profile without lists, counters and unlocks
blankProfile ==
  [ UserProfile |->
      [ name |-> "", coins |-> "0", achievementsList |-> "", unviewedAchievementsList |-> "",
        viewedUnlockablesList |-> "", viewedViewables |-> "", discoveredPickups |-> "",
        stat |-> << >>, unlock |-> << >> ] ]

InitStates ==
  { EmptyState, CountersOnlyState, LegacyState, CompleteState, ProgressOnlyState }

AchievementIds == { c.achievement : c \in Challenges } \cup { UnknownAchievement }

Filters ==
  { NoFilter,
    [ present |-> TRUE, map |-> { <<"sotv", TRUE>>, <<"sots", TRUE>>, <<"ac", TRUE>> } ],
    [ present |-> TRUE, map |-> { <<"sotv", TRUE>>, <<"sots", FALSE>> } ],
    [ present |-> TRUE, map |-> { <<"sotv", TRUE>>, <<"sots", TRUE>>, <<"ac", FALSE>> } ],
    [ present |-> TRUE, map |-> { <<"sotv", TRUE>> } ] }

Init ==
  /\ saveData \in InitStates
  /\ pre = saveData
  /\ last = [ op |-> "load", id |-> "", enabled |-> FALSE, filter |-> NoFilter ]
  /\ input = saveData
  /\ steps = 0
  /\ rawProfile = applySaveData(blankProfile, saveData)
  /\ filename = "UserProfile.xml"
  /\ reads = << >>

\* the fields of a SaveData that hold a mutable container
Fields == Collections \cup { "stats" }

\* variant: only the six arrays are copied, the counter Map is used as passed in
copiedCollectionsOnly(op) == Collections

\* the fields an operation copies into a fresh Set or Map before it works on them
copiedBy(op) ==
  IF op = "toggleAchievement" THEN Collections
  ELSE IF op = "toggleLogbookEntry" THEN Fields
  ELSE IF op = "unlockAll" THEN (Collections \ { "unviewedAchievements" }) \cup { "stats" }
  ELSE IF op = "lockAll" THEN { "stats" }
  ELSE IF op = "unlockAllLogbook"
       THEN (Collections \ { "unviewedAchievements" }) \cup { "stats" }
  ELSE Fields

\* the fields whose container an operation changes with add, delete or set
writtenBy(op) ==
  IF op = "toggleAchievement" THEN Collections
  ELSE IF op = "toggleLogbookEntry" THEN Fields
  ELSE IF op = "unlockAll" THEN (Collections \ { "unviewedAchievements" }) \cup { "stats" }
  ELSE IF op = "lockAll" THEN { "stats" }
  ELSE IF op = "unlockAllLogbook"
       THEN (Collections \ { "unviewedAchievements" }) \cup { "stats" }
  ELSE Fields

\* the object passed to op after the call: a container that was written without having
\* been copied is the caller's own, and holds what the operation left in it
inputAfter(op, arg, result) ==
  IF writtenBy(op) \subseteq copiedBy(op) THEN arg
  ELSE [ f \in DOMAIN arg |->
           IF f \in writtenBy(op) \ copiedBy(op) THEN result[f] ELSE arg[f] ]

Apply(result, op, id, enabled, filter) ==
  /\ steps < MaxSteps
  /\ saveData' = result
  /\ pre' = saveData
  /\ input' = inputAfter(op, saveData, result)
  /\ last' = [ op |-> op, id |-> id, enabled |-> enabled, filter |-> filter ]
  /\ steps' = steps + 1
  /\ UNCHANGED << rawProfile, filename, reads >>

ToggleAchievement ==
  \E id \in AchievementIds, enabled \in BOOLEAN :
     Apply(toggleAchievement(saveData, id, enabled), "toggleAchievement", id, enabled, NoFilter)

ToggleLogbookEntry ==
  \E entry \in Entries, enabled \in BOOLEAN :
     Apply(toggleLogbookEntry(saveData, entry, enabled),
           "toggleLogbookEntry", entry.id, enabled, NoFilter)

UnlockAll ==
  \E f \in Filters : Apply(unlockAll(saveData, f), "unlockAll", "", TRUE, f)

LockAll == Apply(lockAll(saveData), "lockAll", "", FALSE, NoFilter)

UnlockAllLogbook ==
  \E f \in Filters : Apply(unlockAllLogbook(saveData, f), "unlockAllLogbook", "", TRUE, f)

LockAllLogbook == Apply(lockAllLogbook(saveData), "lockAllLogbook", "", FALSE, NoFilter)

HandleToggleEntry ==
  \E entry \in Entries, enabled \in BOOLEAN :
     Apply(handleToggleEntry(saveData, entry, enabled),
           "handleToggleEntry", entry.id, enabled, NoFilter)

Next ==
  \/ ToggleAchievement
  \/ ToggleLogbookEntry
  \/ UnlockAll
  \/ LockAll
  \/ UnlockAllLogbook
  \/ LockAllLogbook
  \/ HandleToggleEntry

Spec == Init /\ [][Next]_vars

TypeOK ==
  /\ steps \in 0..MaxSteps
  /\ \A f \in Collections : \A i \in 1..Len(saveData[f]) : saveData[f][i] \in STRING
  /\ \A p \in saveData.stats : p[1] \in STRING /\ p[2] \in STRING

(***************************************************************************)
(* Properties.  Each one is stated over the state the host holds           *)
(* (saveData), the state the last operation was given (pre) and that       *)
(* operation (last).                                                       *)
(***************************************************************************)
\* the six collections of a and b hold the same elements
SameSets(a, b) == \A f \in Collections : Range(a[f]) = Range(b[f])

\* same elements in the six collections and the same counters, key by key
SameState(a, b) == SameSets(a, b) /\ a.stats = b.stats

EntryById(id) == CHOOSE e \in Entries : e.id = id

LinkedEntries(c) == Range(getLogbookEntriesForChallenge(c.id))

\* <<A, B, E>>: two distinct challenges both linked to entry E
SharedTriples ==
  { t \in Challenges \X Challenges \X Entries :
      t[1] # t[2] /\ t[3] \in LinkedEntries(t[1]) /\ t[3] \in LinkedEntries(t[2]) }

\* the canonical id and the pickup id of e are in none of the marker collections of s
EntryAbsent(s, e) ==
  /\ e.unlockId \notin Range(s.unlocks)
  /\ e.unlockId \notin Range(s.viewedViewables)
  /\ e.pickupId \notin Range(s.discoveredPickups)

\* C1 as stated: with A and B both linked to E, once A has been enabled, enabling B and
\* then disabling A leaves E unlocked; disabling B as well leaves E locked and its
\* canonical id and pickup id out of unlocks, viewedViewables and discoveredPickups.
C1_SharedEntryRetentionAsStated ==
  \A t \in SharedTriples :
     last.op = "toggleAchievement" /\ last.enabled /\ last.id = t[1].achievement =>
     LET both == toggleAchievement(saveData, t[2].achievement, TRUE)
         withoutA == toggleAchievement(both, t[1].achievement, FALSE)
         withoutB == toggleAchievement(withoutA, t[2].achievement, FALSE)
     IN /\ isLogbookEntryUnlocked(withoutA, t[3])
        /\ ~ isLogbookEntryUnlocked(withoutB, t[3])
        /\ EntryAbsent(withoutB, t[3])

\* a challenge other than a and b that is linked to e is held in s
ThirdProviderHeld(s, a, b, e) ==
  \E o \in Challenges \ { a, b } :
     e \in LinkedEntries(o) /\ o.achievement \in Range(s.achievements)

\* C1 (shared-entry retention, amended): with A and B both linked to E, once A has been
\* enabled, enabling B and then disabling A leaves E unlocked; when no third challenge
\* linked to E is held, disabling B as well leaves E locked and its canonical id and
\* pickup id out of unlocks, viewedViewables and discoveredPickups.
C1_SharedEntryRetention ==
  \A t \in SharedTriples :
     last.op = "toggleAchievement" /\ last.enabled /\ last.id = t[1].achievement =>
     LET both == toggleAchievement(saveData, t[2].achievement, TRUE)
         withoutA == toggleAchievement(both, t[1].achievement, FALSE)
         withoutB == toggleAchievement(withoutA, t[2].achievement, FALSE)
     IN /\ isLogbookEntryUnlocked(withoutA, t[3])
        /\ ~ ThirdProviderHeld(saveData, t[1], t[2], t[3])
              => ~ isLogbookEntryUnlocked(withoutB, t[3]) /\ EntryAbsent(withoutB, t[3])

\* A was just disabled while B, linked to the same entry, is still held: the entry stays
C1_Witness ==
  \E t \in SharedTriples :
     /\ last.op = "toggleAchievement" /\ ~ last.enabled /\ last.id = t[1].achievement
     /\ t[1].achievement \in Range(pre.achievements)
     /\ t[1].achievement \notin Range(saveData.achievements)
     /\ t[2].achievement \in Range(saveData.achievements)
     /\ isLogbookEntryUnlocked(saveData, t[3])
     /\ ~ isLogbookEntryUnlocked(toggleAchievement(saveData, t[2].achievement, FALSE), t[3])

\* some unlock id of c is also granted by another achievement held in s
GrantedByOtherHeld(s, c) ==
  \E o \in Challenges :
     /\ o.achievement # c.achievement
     /\ o.achievement \in Range(s.achievements)
     /\ Range(o.unlocks) \cap Range(c.unlocks) # {}

\* the last operation enabled challenge c
JustEnabled(c) ==
  last.op = "toggleAchievement" /\ last.enabled /\ last.id = c.achievement

\* C2 as stated: for every challenge A whose unlock ids no other held achievement grants,
\* enabling A and then disabling it gives back the six collections of the state, as sets.
C2_SymmetryAsStated ==
  \A c \in Challenges :
     JustEnabled(c) /\ ~ GrantedByOtherHeld(pre, c)
        => SameSets(toggleAchievement(saveData, c.achievement, FALSE), pre)

\* nothing the enable branch writes for c is in s yet
NotYetEnabled(s, c) ==
  /\ c.achievement \notin Range(s.achievements) \cup Range(s.unviewedAchievements)
  /\ Range(c.unlocks) \cap (Range(s.viewedUnlockables) \cup Range(s.unlocks)) = {}
  /\ \A e \in LinkedEntries(c) :
        /\ e.unlockId \notin Range(s.unlocks) \cup Range(s.viewedViewables)
        /\ e.pickupId \notin Range(s.discoveredPickups)

\* C2 (symmetry, amended): for every challenge A whose unlock ids no other held achievement
\* grants and whose achievement id, unlock ids and linked entries' canonical and pickup ids
\* are not in the state yet, enabling A and then disabling it gives back the six
\* collections of the state, as sets.
C2_Symmetry ==
  \A c \in Challenges :
     JustEnabled(c) /\ ~ GrantedByOtherHeld(pre, c) /\ NotYetEnabled(pre, c)
        => SameSets(toggleAchievement(saveData, c.achievement, FALSE), pre)

\* a challenge with a linked entry was enabled on a state that had none of it, then disabled
C2_Witness ==
  \E c \in Challenges :
     /\ steps = 2
     /\ last.op = "toggleAchievement" /\ ~ last.enabled /\ last.id = c.achievement
     /\ LinkedEntries(c) # {}
     /\ ~ GrantedByOtherHeld(saveData, c) /\ NotYetEnabled(saveData, c)
     /\ SameSets(pre, toggleAchievement(saveData, c.achievement, TRUE))
     /\ ~ SameSets(pre, saveData)

\* C3 (idempotence): enabling an achievement id twice gives the state that enabling it
\* once gives, and so does enabling a logbook entry twice; the six collections are
\* compared as sets and the counters by key and value.
C3_EnableIdempotent ==
  /\ last.op = "toggleAchievement" /\ last.enabled
        => SameState(toggleAchievement(saveData, last.id, TRUE), saveData)
  /\ last.op = "toggleLogbookEntry" /\ last.enabled
        => SameState(toggleLogbookEntry(saveData, EntryById(last.id), TRUE), saveData)

\* an entry with a stat projection was enabled a second time in a row
C3_Witness ==
  /\ steps = 2
  /\ last.op = "toggleLogbookEntry" /\ last.enabled
  /\ Cached(enableProjectionCache, EntryById(last.id)).stats # << >>
  /\ SameState(pre, toggleLogbookEntry(pre, EntryById(last.id), TRUE))
  /\ SameState(pre, saveData)
  /\ pre.stats # {}

\* <<C, E>>: challenge C is linked to entry E and to no other entry
SingleLinks ==
  { t \in Challenges \X Entries :
      getLogbookEntriesForChallenge(t[1].id) = << t[2] >> }

ChallengeDisabledIn(s, c) ==
  /\ c.achievement \notin Range(s.achievements) \cup Range(s.unviewedAchievements)
  /\ Range(c.unlocks) \cap (Range(s.viewedUnlockables) \cup Range(s.unlocks)) = {}

\* C4 (single-entry cascade): for every challenge C linked to exactly one entry E,
\* disabling E leaves C's achievement id out of achievements and
\* unviewedAchievements and C's unlock ids out of viewedUnlockables and unlocks.
C4_SingleEntryCascade ==
  \A t \in SingleLinks :
     last.op = "toggleLogbookEntry" /\ ~ last.enabled /\ last.id = t[2].id
        => ChallengeDisabledIn(saveData, t[1])

\* the only entry of a held challenge was disabled while another entry was still unlocked
C4_Witness ==
  \E t \in SingleLinks :
     /\ last.op = "toggleLogbookEntry" /\ ~ last.enabled /\ last.id = t[2].id
     /\ t[1].achievement \in Range(pre.achievements)
     /\ \E e \in Entries \ { t[2] } : isLogbookEntryUnlocked(saveData, e)
     /\ ChallengeDisabledIn(saveData, t[1])

\* C5 (bulk unlock, achievements): after unlockAll without a DLC filter
\* the achievement id of every challenge of the catalog is in achievements.
C5_UnlockAllAchievements ==
  last.op = "unlockAll" /\ ~ last.filter.present
     => \A c \in Challenges : c.achievement \in Range(saveData.achievements)

\* unlockAll without a filter ran on a state that held no achievement
C5_Witness ==
  /\ last.op = "unlockAll" /\ ~ last.filter.present
  /\ pre.achievements = << >>
  /\ \A c \in Challenges : c.achievement \in Range(saveData.achievements)

\* C6 (bulk unlock, logbook): after unlockAll without a DLC filter
\* every entry of the catalog, in every category, is unlocked.
C6_UnlockAllLogbook ==
  last.op = "unlockAll" /\ ~ last.filter.present
     => \A e \in Entries : isLogbookEntryUnlocked(saveData, e)

\* unlockAll without a filter ran on a state in which no entry was unlocked
C6_Witness ==
  /\ last.op = "unlockAll" /\ ~ last.filter.present
  /\ \A e \in Entries : ~ isLogbookEntryUnlocked(pre, e)
  /\ \A e \in Entries : isLogbookEntryUnlocked(saveData, e)
  /\ { e.category : e \in Entries } =
       { "monsters", "environments", "survivors", "items", "equipment", "drones" }

\* C7 (bulk lock, removal): after lockAllLogbook every entry's canonical id is out of
\* unlocks and viewedViewables, its pickup id is out of discoveredPickups, and every
\* unlock id and counter key the enable branch of the stat projection writes for the
\* entry is out of unlocks and out of the counters.
C7_LockAllLogbookRemoves ==
  last.op = "lockAllLogbook" =>
     \A e \in Entries :
        /\ EntryAbsent(saveData, e)
        /\ \A i \in 1..Len(enableProjection(e).unlocks) :
              enableProjection(e).unlocks[i] \notin Range(saveData.unlocks)
        /\ \A i \in 1..Len(enableProjection(e).stats) :
              ~ MapHas(saveData.stats, enableProjection(e).stats[i][1])

\* the counter families the frame property of lockAllLogbook names
TrackedFamilies ==
  << "Logs.", "timesSummoned.", "totalTimeAlive.", "killsAgainst.", "deathsFrom.",
     "timesPicked.", "totalWins.", "totalTimesVisited.", "totalTimesCleared." >>

\* lockAllLogbook kept every counter of s outside the given families, and name and coins
FrameKept(s, r, families) ==
  /\ \A p \in s.stats : ~ hasPrefixIn(p[1], families) => p \in r.stats
  /\ r.name = s.name
  /\ r.coins = s.coins

\* C8 as stated: lockAllLogbook leaves every counter whose key starts with none of the
\* tracked family prefixes present with its value, and leaves name and coins unchanged.
C8_FrameAsStated ==
  last.op = "lockAllLogbook" => FrameKept(pre, saveData, TrackedFamilies)

\* C8 (bulk lock, frame, amended): lockAllLogbook leaves every counter whose key starts
\* with none of the tracked family prefixes nor with "Log." present with its value, and
\* leaves name and coins unchanged.
C8_Frame ==
  last.op = "lockAllLogbook"
     => FrameKept(pre, saveData, TrackedFamilies \o << "Log." >>)

\* lockAllLogbook ran on a state with counters inside and outside the families and
\* removed some of the former
C8_Witness ==
  /\ last.op = "lockAllLogbook"
  /\ \E p \in pre.stats : ~ hasPrefixIn(p[1], TrackedFamilies \o << "Log." >>)
  /\ \E p \in pre.stats : p \notin saveData.stats
  /\ FrameKept(pre, saveData, TrackedFamilies \o << "Log." >>)

\* C9 (drone scenario, enable): enabling the drones entry Logs.ChirpBody.0 with pickup
\* DroneIndex.Chirp puts Logs.ChirpBody.0 in unlocks and viewedViewables,
\* DroneIndex.Chirp in discoveredPickups, and sets the counters timesSummoned.ChirpBody
\* and totalTimeAlive.ChirpBody to "1".
C9_DroneEnable ==
  last.op = "toggleLogbookEntry" /\ last.enabled /\ last.id = "chirp" =>
     /\ "Logs.ChirpBody.0" \in Range(saveData.unlocks)
     /\ "Logs.ChirpBody.0" \in Range(saveData.viewedViewables)
     /\ "DroneIndex.Chirp" \in Range(saveData.discoveredPickups)
     /\ <<"timesSummoned.ChirpBody", "1">> \in saveData.stats
     /\ <<"totalTimeAlive.ChirpBody", "1">> \in saveData.stats

\* s with its collections and counters emptied
Blank(s) ==
  [ s EXCEPT !.achievements = << >>, !.unviewedAchievements = << >>,
             !.viewedUnlockables = << >>, !.unlocks = << >>, !.viewedViewables = << >>,
             !.discoveredPickups = << >>, !.stats = {} ]

\* the drones entry was disabled right after being enabled on an empty state
ChirpEnabledThenDisabled ==
  /\ last.op = "toggleLogbookEntry" /\ ~ last.enabled /\ last.id = "chirp"
  /\ pre = toggleLogbookEntry(Blank(pre), EntryById("chirp"), TRUE)

\* C10 (drone scenario, disable): enabling the drones entry on a state with empty
\* collections and no counters and then disabling it leaves unlocks, viewedViewables,
\* discoveredPickups and the counters empty again.
C10_DroneDisable ==
  ChirpEnabledThenDisabled =>
     /\ saveData.unlocks = << >>
     /\ saveData.viewedViewables = << >>
     /\ saveData.discoveredPickups = << >>
     /\ saveData.stats = {}

\* the enable had written markers and counters, and the disable has run
C10_Witness ==
  /\ ChirpEnabledThenDisabled
  /\ pre.unlocks # << >> /\ pre.stats # {}
  /\ saveData = Blank(saveData)

\* the environments entry of stage artifactworld and the stages its enable branch covers
ArtifactWorldEntry == EntryById("artifactworld")

ArtifactWorldStages ==
  { "artifactworld", "artifactworld01", "artifactworld02", "artifactworld03", "artifactworld04" }

ArtifactWorldCounters ==
  { <<family \o stage, "1">> :
      family \in { "totalTimesVisited.", "totalTimesCleared." }, stage \in ArtifactWorldStages }

\* C11 (environment scenario): enabling the environments entry of stage artifactworld
\* leaves the five stage ids Logs.Stages.artifactworld, ...01, ...02, ...03, ...04 in
\* unlocks, and changes the counter map by exactly the ten counters
\* totalTimesVisited.<stage> = "1" and totalTimesCleared.<stage> = "1" of those stages.
C11_EnvironmentEnable ==
  last.op = "toggleLogbookEntry" /\ last.enabled /\ last.id = ArtifactWorldEntry.id =>
     /\ \A stage \in ArtifactWorldStages : ("Logs.Stages." \o stage) \in Range(saveData.unlocks)
     /\ Cardinality(ArtifactWorldCounters) = 10
     /\ saveData.stats =
          { p \in pre.stats : p[1] \notin { q[1] : q \in ArtifactWorldCounters } }
            \cup ArtifactWorldCounters

\* the entry was enabled on a state that had none of the stage ids and none of the counters
C11_Witness ==
  /\ last.op = "toggleLogbookEntry" /\ last.enabled /\ last.id = ArtifactWorldEntry.id
  /\ \A stage \in ArtifactWorldStages : ("Logs.Stages." \o stage) \notin Range(pre.unlocks)
  /\ MapKeys(pre.stats) \cap { q[1] : q \in ArtifactWorldCounters } = {}
  /\ Cardinality(saveData.stats) = Cardinality(pre.stats) + 10
  /\ "Logs.Stages.artifactworld04" \in Range(saveData.unlocks)

\* C12 (unknown achievement id): toggling, either way, an achievement id that matches no
\* challenge of the catalog leaves the six collections equal, as sets, to those of the
\* state it was given; the unknown id is not inserted into achievements.
C12_UnknownAchievementNoOp ==
  last.op = "toggleAchievement" /\ ~ findChallenge(last.id).found
     => /\ SameSets(saveData, pre)
        /\ last.id \notin Range(saveData.achievements)

\* C13 (enable postcondition of toggleAchievement): enabling catalog challenge A gives the
\* state it was given with A's achievement id added to achievements and
\* unviewedAchievements, A's unlock ids added to viewedUnlockables and unlocks, and for each
\* entry linked to A its canonical id added to viewedViewables and unlocks and its pickup
\* id, when it has one, added to discoveredPickups; the collections gain and lose nothing
\* else (compared as sets) and the counter map, name and coins are unchanged.
C13_EnablePostcondition ==
  \A c \in Challenges :
     JustEnabled(c) =>
       LET linkedIds == { e.unlockId : e \in LinkedEntries(c) }
           linkedPickups == { e.pickupId : e \in { x \in LinkedEntries(c) : x.pickupId # "" } }
       IN /\ Range(saveData.achievements) = Range(pre.achievements) \cup { c.achievement }
          /\ Range(saveData.unviewedAchievements)
               = Range(pre.unviewedAchievements) \cup { c.achievement }
          /\ Range(saveData.viewedUnlockables)
               = Range(pre.viewedUnlockables) \cup Range(c.unlocks)
          /\ Range(saveData.unlocks) = Range(pre.unlocks) \cup Range(c.unlocks) \cup linkedIds
          /\ Range(saveData.viewedViewables) = Range(pre.viewedViewables) \cup linkedIds
          /\ Range(saveData.discoveredPickups)
               = Range(pre.discoveredPickups) \cup linkedPickups
          /\ saveData.stats = pre.stats
          /\ saveData.name = pre.name
          /\ saveData.coins = pre.coins

\* a challenge linked to two entries was enabled on a state that had counters and none of
\* what the enable writes
C13_Witness ==
  \E c \in Challenges :
     /\ JustEnabled(c)
     /\ Cardinality(LinkedEntries(c)) = 2
     /\ NotYetEnabled(pre, c)
     /\ pre.stats # {}
     /\ Cardinality(Range(saveData.discoveredPickups)) = 2
     /\ Cardinality(Range(saveData.unlocks)) = Cardinality(Range(pre.unlocks)) + 2

\* C14 (lockAll postcondition): after lockAll the six collections are empty and no counter
\* key starts with Logs., timesSummoned., totalTimeAlive., killsAgainst., minionKillsAs.,
\* deathsFrom., timesPicked. or totalWins.
C14_LockAllPostcondition ==
  last.op = "lockAll" =>
     /\ \A f \in Collections : saveData[f] = << >>
     /\ \A p \in saveData.stats :
          \A prefix \in { "Logs.", "timesSummoned.", "totalTimeAlive.", "killsAgainst.",
                          "minionKillsAs.", "deathsFrom.", "timesPicked.", "totalWins." } :
             ~ StartsWith(p[1], prefix)

\* lockAll ran on a state with elements in every collection and counters of those families
C14_Witness ==
  /\ last.op = "lockAll"
  /\ \A f \in Collections \ { "unviewedAchievements" } : pre[f] # << >>
  /\ \E p \in pre.stats : StartsWith(p[1], "totalWins.")
  /\ \E p \in pre.stats : StartsWith(p[1], "killsAgainst.")
  /\ \A f \in Collections : saveData[f] = << >>

\* the counter-family prefixes lockAll is specified to delete
LockAllFamilies ==
  { "Logs.", "timesSummoned.", "totalTimeAlive.", "killsAgainst.",
    "minionKillsAs.", "deathsFrom.", "timesPicked.", "totalWins." }

\* C15 (lockAll frame): every counter whose key starts with none of the fixed
\* counter-family prefixes is present after lockAll with the same value, and name and
\* coins are unchanged.
C15_LockAllFrame ==
  last.op = "lockAll" =>
     /\ \A p \in pre.stats :
          (\A prefix \in LockAllFamilies : ~ StartsWith(p[1], prefix)) => p \in saveData.stats
     /\ saveData.name = pre.name
     /\ saveData.coins = pre.coins

\* lockAll ran on a state with telemetry and family counters: the telemetry is kept while
\* family counters are gone
C15_Witness ==
  /\ last.op = "lockAll"
  /\ <<"totalGamesPlayed", "7">> \in pre.stats
  /\ <<"totalGamesPlayed", "7">> \in saveData.stats
  /\ \E p \in pre.stats : \E prefix \in LockAllFamilies : StartsWith(p[1], prefix)
  /\ Cardinality(saveData.stats) < Cardinality(pre.stats)
  /\ saveData.coins > 0

\* C16 (lockAll covers all tracked counter families): lockAll applied to the result of
\* unlockAll on the state with empty collections and an empty counter map gives an empty
\* counter map; no counter created by unlocking survives a full lock.
C16_LockAllCoversFamilies ==
  last.op = "lockAll" /\ pre = unlockAll(EmptyState, NoFilter) => saveData.stats = {}

\* C17 (DLC filter of unlockAll): when unlockAll is given a DLC filter, a challenge that
\* was not held and whose DLC tag is neither "base" nor mapped to true by the filter
\* (the tag is absent from the filter or mapped to false) is not held afterwards.
C17_UnlockAllDlcFilter ==
  last.op = "unlockAll" /\ last.filter.present =>
     \A c \in Challenges :
        /\ c.achievement \notin Range(pre.achievements)
        /\ c.dlc # "base"
        /\ <<c.dlc, TRUE>> \notin last.filter.map
        => c.achievement \notin Range(saveData.achievements)

\* the counter families that record play progress
ProgressFamilies ==
  { "killsAgainst.", "deathsFrom.", "timesSummoned.", "totalTimeAlive.",
    "timesPicked.", "totalWins.", "totalTimesVisited.", "totalTimesCleared." }

\* the six collections of s are empty and every counter of s is a progress counter
OnlyProgressCounters(s) ==
  /\ \A f \in Collections : s[f] = << >>
  /\ \A p \in s.stats :
        /\ \E family \in ProgressFamilies : StartsWith(p[1], family)
        /\ ~ StartsWith(p[1], "Logs.")

\* C18 (counters are not evidence of unlock): in a state whose six collections are empty
\* and whose counter map holds only progress counters (no key starting with Logs.),
\* no logbook entry is unlocked.
C18_CountersAreNotEvidence ==
  OnlyProgressCounters(saveData) =>
     \A e \in Entries : ~ isLogbookEntryUnlocked(saveData, e)

\* such a state with kill, summon, play-time and visit counters of catalog content
C18_Witness ==
  /\ OnlyProgressCounters(saveData)
  /\ MapHas(saveData.stats, "killsAgainst.BeetleBody")
  /\ MapHas(saveData.stats, "timesSummoned.ChirpBody")
  /\ MapHas(saveData.stats, "totalTimesVisited.artifactworld")
  /\ \A e \in Entries : ~ isLogbookEntryUnlocked(saveData, e)

C20_EdgeRule ==
  /\ steps \in Nat
  /\ \A c \in Challenges : \A e \in Entries :
        LET forward == e \in Range(getLogbookEntriesForChallenge(c.id))
            backward == c \in Range(getChallengesForLogbookEntry(e.id))
            rule == e.category \in { "items", "equipment" } /\ e.unlockId \in Range(c.unlocks)
        IN (forward <=> backward) /\ (forward <=> rule)
  /\ \A e \in Entries :
        e.category \in { "monsters", "environments", "survivors", "drones" }
           => getChallengesForLogbookEntry(e.id) = << >>

\* a challenge with an items and an equipment entry was enabled through its edges while
\* the catalog also has a challenge whose unlock id names a survivor and links to nothing
C20_Witness ==
  \E c \in Challenges :
     /\ JustEnabled(c)
     /\ { e.category : e \in LinkedEntries(c) } = { "items", "equipment" }
     /\ \A e \in LinkedEntries(c) : e.unlockId \in Range(saveData.viewedViewables)
     /\ \E o \in Challenges : o.unlocks = << "Characters.Toolbot" >> /\ LinkedEntries(o) = {}
     /\ \E e \in Entries : e.category = "survivors" /\ getChallengesForLogbookEntry(e.id) = << >>

\* <<C, E>>: challenge C is linked to entry E and to at least one other entry
MultiLinks ==
  { t \in Challenges \X Entries :
      t[2] \in LinkedEntries(t[1]) /\ Cardinality(LinkedEntries(t[1])) >= 2 }

\* the last operation disabled entry e
JustDisabledEntry(e) ==
  last.op = "toggleLogbookEntry" /\ ~ last.enabled /\ last.id = e.id

\* some entry linked to c other than e has its canonical id in the viewedViewables of s
OtherEntryViewed(s, c, e) ==
  \E o \in LinkedEntries(c) \ { e } : o.unlockId \in Range(s.viewedViewables)

\* C21 (disable decision on the pre-mutation snapshot): for a challenge C linked to E and
\* to at least one other entry and held in the state given, disabling E removes C's
\* achievement id exactly when no other entry linked to C has its canonical id in the
\* viewedViewables of the state given; otherwise C stays held.  A challenge that was not
\* held is not held afterwards.
C21_SnapshotDecision ==
  \A t \in MultiLinks :
     JustDisabledEntry(t[2]) =>
        IF t[1].achievement \in Range(pre.achievements)
        THEN t[1].achievement \notin Range(saveData.achievements)
               <=> ~ OtherEntryViewed(pre, t[1], t[2])
        ELSE t[1].achievement \notin Range(saveData.achievements)

\* one entry of a held two-entry challenge was disabled while the other was viewed: the
\* challenge stays held
C21_Witness ==
  \E t \in MultiLinks :
     /\ JustDisabledEntry(t[2])
     /\ t[1].achievement \in Range(pre.achievements)
     /\ t[2].unlockId \in Range(pre.viewedViewables)
     /\ OtherEntryViewed(pre, t[1], t[2])
     /\ t[2].unlockId \notin Range(saveData.viewedViewables)
     /\ t[1].achievement \in Range(saveData.achievements)

\* the challenges directly linked to entry e: those whose unlock-id list holds the
\* canonical id of an items or equipment entry e
DirectChallenges(e) ==
  { c \in Challenges :
      e.category \in { "items", "equipment" } /\ e.unlockId \in Range(c.unlocks) }

\* e together with every entry linked to a challenge directly linked to e
FanOut(e) == { e } \cup UNION { LinkedEntries(c) : c \in DirectChallenges(e) }

\* the last operation enabled entry e
JustEnabledEntry(e) ==
  last.op = "toggleLogbookEntry" /\ last.enabled /\ last.id = e.id

\* C22 (one-level fan-out on enable): enabling entry E adds to achievements exactly the
\* achievement ids of the challenges directly linked to E and unlocks E together with
\* every other entry linked to those challenges; a challenge linked only to one of those
\* other entries is not added, and an entry outside that fan-out is unlocked afterwards
\* only if it was unlocked before.
C22_OneLevelFanOut ==
  \A e \in Entries :
     JustEnabledEntry(e) =>
        /\ Range(saveData.achievements)
             = Range(pre.achievements) \cup { c.achievement : c \in DirectChallenges(e) }
        /\ \A x \in FanOut(e) :
              /\ x.unlockId \in Range(saveData.unlocks)
              /\ x.unlockId \in Range(saveData.viewedViewables)
              /\ isLogbookEntryUnlocked(saveData, x)
        /\ \A x \in Entries \ FanOut(e) :
              isLogbookEntryUnlocked(saveData, x) => isLogbookEntryUnlocked(pre, x)

\* an entry was enabled whose fan-out reaches a second entry that a further challenge
\* links to a third entry: that challenge is not held and the third entry is not unlocked
C22_Witness ==
  \E e \in Entries : \E c \in Challenges \ DirectChallenges(e) : \E x \in Entries \ FanOut(e) :
     /\ JustEnabledEntry(e)
     /\ pre.achievements = << >>
     /\ LinkedEntries(c) \cap FanOut(e) # {}
     /\ x \in LinkedEntries(c)
     /\ Cardinality(FanOut(e)) >= 2
     /\ \A d \in DirectChallenges(e) : d.achievement \in Range(saveData.achievements)
     /\ c.achievement \notin Range(saveData.achievements)
     /\ ~ isLogbookEntryUnlocked(saveData, x)

\* the categories whose entries carry log-unlock ids and counters
ProjectedCategories == { "monsters", "survivors", "environments", "drones" }

\* s has none of the log-unlock ids and none of the counters the enable branch writes for e
HasNoneOfProjection(s, e) ==
  /\ Range(enableProjection(e).unlocks) \cap Range(s.unlocks) = {}
  /\ { p[1] : p \in Range(enableProjection(e).stats) } \cap { q[1] : q \in s.stats } = {}

\* C23 (stat projection undone on disable): for every monsters, survivors, environments or
\* drones entry E just enabled on a state that had none of E's log-unlock ids or counters,
\* disabling E gives back the counter map and the unlocks set of that earlier state.
C23_ProjectionUndone ==
  \A e \in Entries :
     /\ e.category \in ProjectedCategories
     /\ last.op = "toggleLogbookEntry" /\ last.enabled /\ last.id = e.id
     /\ HasNoneOfProjection(pre, e)
     => LET back == toggleLogbookEntry(saveData, e, FALSE)
        IN back.stats = pre.stats /\ Range(back.unlocks) = Range(pre.unlocks)

\* the entry whose resolved log name is the literal Log.SolusHeart
SolusHeartEntry == EntryById("solus-heart")

\* C24 (no-counters literal): for the entry resolving to Log.SolusHeart the stat projection
\* changes neither the unlocks set nor the counter map, when enabling and when disabling.
C24_NoCountersLiteral ==
  \A enabled \in BOOLEAN :
     LET after == updateLogbookStats(SolusHeartEntry, enabled, saveData.unlocks, saveData.stats)
     IN /\ resolveLogNames(SolusHeartEntry).fullLogString = "Log.SolusHeart"
        /\ Range(after.unlocks) = Range(saveData.unlocks)
        /\ after.stats = saveData.stats

\* the challenges the reference graph links to at least one logbook entry
LinkedChallenges == { c \in Challenges : \E e \in Entries : c \in DirectChallenges(e) }

\* the held challenges without a linked entry
UnlinkedHeld(s) ==
  { c \in Challenges \ LinkedChallenges : c.achievement \in Range(s.achievements) }

RECURSIVE EnableEntriesFrom(_, _)
EnableEntriesFrom(iArg, sArg) ==
  With2(iArg, sArg, LAMBDA i, s :
    IF i > Len(logbookEntries) THEN s
    ELSE EnableEntriesFrom(i + 1, toggleLogbookEntry(s, logbookEntries[i], TRUE)))

\* C26 (unlockAllLogbook refines the per-entry toggle): unlockAllLogbook without a DLC
\* filter returns the same six collections, as sets, and the same counter map as enabling
\* every entry of the catalog in turn with toggleLogbookEntry and then emptying
\* unviewedAchievements.
C26_UnlockAllLogbookRefinesToggle ==
  last.op = "unlockAllLogbook" /\ last.filter = NoFilter =>
     LET oneByOne == [ EnableEntriesFrom(1, pre) EXCEPT !.unviewedAchievements = << >> ]
     IN SameSets(saveData, oneByOne) /\ saveData.stats = oneByOne.stats

\* the bulk enable ran without a filter on a state with unviewed achievements and changed
\* collections and counters
C26_Witness ==
  /\ last.op = "unlockAllLogbook" /\ last.filter = NoFilter
  /\ pre.unviewedAchievements # << >>
  /\ ~ SameSets(saveData, pre)
  /\ saveData.stats # pre.stats
  /\ Range(saveData.achievements) # Range(pre.achievements)

\* toggleAchievement(., A, true) applied successively for the challenges from i on
RECURSIVE EnableChallengesFrom(_, _)
EnableChallengesFrom(iArg, sArg) ==
  With2(iArg, sArg, LAMBDA i, s :
    IF i > Len(challenges) THEN s
    ELSE EnableChallengesFrom(i + 1, toggleAchievement(s, challenges[i].achievement, TRUE)))

\* C27 (unlockAll refines the per-challenge toggle): unlockAll without a DLC filter returns
\* the state obtained by enabling every challenge of the catalog in turn with
\* toggleAchievement, then emptying unviewedAchievements, then applying unlockAllLogbook
\* without a filter.
C27_UnlockAllRefinesToggle ==
  last.op = "unlockAll" /\ last.filter = NoFilter =>
     saveData = unlockAllLogbook(
                  [ EnableChallengesFrom(1, pre) EXCEPT !.unviewedAchievements = << >> ],
                  NoFilter)

\* the bulk enable ran without a filter on a state that held some but not all achievements
C27_Witness ==
  /\ last.op = "unlockAll" /\ last.filter = NoFilter
  /\ pre.achievements # << >>
  /\ Range(saveData.achievements) # Range(pre.achievements)
  /\ saveData.stats # pre.stats

\* survivors entries given to the resolver: every pairing of the ids and viewable paths below
ProbeIds ==
  { "toolbot", "engineer", "treebot", "voidfiend", "void-fiend", "mult", "rex", "acrid",
    "commando" }

ProbeUnlockIds ==
  { "/Logbook/LOGBOOK_CATEGORY_SURVIVOR/TOOLBOT_BODY_NAME",
    "/Logbook/LOGBOOK_CATEGORY_SURVIVOR/TREEBOT_BODY_NAME",
    "/Logbook/LOGBOOK_CATEGORY_SURVIVOR/COMMANDO_BODY_NAME" }

SurvivorProbes ==
  { [ id |-> i, category |-> "survivors", unlockId |-> u, pickupId |-> "", dlc |-> "base" ] :
      i \in ProbeIds, u \in ProbeUnlockIds }

\* the values a table holds for key k
ValuesAt(table, k) == { p[2] : p \in { q \in Range(table) : q[1] = k } }

\* the achievement id the resolution order prescribes for e, "" when no rule matches
PrescribedAchievement(e) ==
  IF ValuesAt(SURVIVOR_UNLOCKID_TO_ACHIEVEMENT, e.unlockId) # {}
  THEN CHOOSE a \in ValuesAt(SURVIVOR_UNLOCKID_TO_ACHIEVEMENT, e.unlockId) : TRUE
  ELSE IF ValuesAt(SURVIVOR_LOGBOOK_TO_ACHIEVEMENT, e.id) # {}
  THEN CHOOSE a \in ValuesAt(SURVIVOR_LOGBOOK_TO_ACHIEVEMENT, e.id) : TRUE
  ELSE IF ValuesAt(survivorIdAliases, e.id) # {}
  THEN CHOOSE a \in ValuesAt(survivorIdAliases, e.id) : TRUE
  ELSE ""

\* the challenge of the catalog with achievement id a, as the resolver returns it
ChallengeWith(a) ==
  IF \E c \in Challenges : c.achievement = a
  THEN [ found |-> TRUE, challenge |-> CHOOSE c \in Challenges : c.achievement = a ]
  ELSE [ found |-> FALSE, challenge |-> challenges[1] ]

\* C28 (survivor resolver order): for a survivors entry the resolver returns the challenge
\* of the achievement the viewable-path table maps the unlockId to whenever that table has
\* it, otherwise of the one the entry-id table maps the id to, otherwise of the one the
\* five id aliases give, and none when no rule matches; the toggle handler enables the
\* achievement so resolved.
C28_ResolverOrder ==
  /\ \A e \in SurvivorProbes \cup { x \in Entries : x.category = "survivors" } :
        getAchievementForSurvivorLogbook(e) = ChallengeWith(PrescribedAchievement(e))
  /\ \A e \in Entries :
        /\ last.op = "handleToggleEntry" /\ last.enabled /\ last.id = e.id
        /\ e.category = "survivors" /\ ChallengeWith(PrescribedAchievement(e)).found
        => PrescribedAchievement(e) \in Range(saveData.achievements)

\* the handler enabled a survivors entry and with it the achievement the viewable-path
\* table gives, while probes reach the entry-id table, the aliases and the no-match case
C28_Witness ==
  /\ \E e \in Entries :
        /\ last.op = "handleToggleEntry" /\ last.enabled /\ last.id = e.id
        /\ e.category = "survivors"
        /\ ValuesAt(SURVIVOR_UNLOCKID_TO_ACHIEVEMENT, e.unlockId) # {}
        /\ getAchievementForSurvivorLogbook(e).found
        /\ PrescribedAchievement(e) \notin Range(pre.achievements)
        /\ PrescribedAchievement(e) \in Range(saveData.achievements)
  /\ \E e \in SurvivorProbes :
        /\ ValuesAt(SURVIVOR_UNLOCKID_TO_ACHIEVEMENT, e.unlockId) # {}
        /\ ValuesAt(SURVIVOR_LOGBOOK_TO_ACHIEVEMENT, e.id) # {}
        /\ PrescribedAchievement(e) \notin ValuesAt(SURVIVOR_LOGBOOK_TO_ACHIEVEMENT, e.id)
  /\ \E e \in SurvivorProbes :
        /\ ValuesAt(SURVIVOR_UNLOCKID_TO_ACHIEVEMENT, e.unlockId) = {}
        /\ ValuesAt(SURVIVOR_LOGBOOK_TO_ACHIEVEMENT, e.id) # {}
        /\ getAchievementForSurvivorLogbook(e).found
  /\ \E e \in SurvivorProbes :
        /\ ValuesAt(SURVIVOR_UNLOCKID_TO_ACHIEVEMENT, e.unlockId) = {}
        /\ ValuesAt(SURVIVOR_LOGBOOK_TO_ACHIEVEMENT, e.id) = {}
        /\ getAchievementForSurvivorLogbook(e).found
  /\ \E e \in SurvivorProbes : PrescribedAchievement(e) = ""

\* the survivors entries of the catalog whose resolver returns a challenge
ResolvedSurvivors ==
  { e \in Entries : e.category = "survivors" /\ getAchievementForSurvivorLogbook(e).found }

\* C29 (survivor cascade is one-directional): after the toggle handler enabled a survivors
\* entry whose resolver returns achievement X, X is in achievements; and when the handler
\* disables a survivors entry while X is held, X is still held afterwards.
C29_SurvivorCascadeOneWay ==
  \A e \in ResolvedSurvivors :
     LET X == getAchievementForSurvivorLogbook(e).challenge.achievement
     IN /\ last.op = "handleToggleEntry" /\ last.id = e.id /\ last.enabled
           => /\ X \in Range(saveData.achievements)
              /\ X \in Range(handleToggleEntry(saveData, e, FALSE).achievements)
        /\ last.op = "handleToggleEntry" /\ last.id = e.id /\ ~ last.enabled
           /\ X \in Range(pre.achievements)
           => X \in Range(saveData.achievements)

\* the handler enabled a survivors entry, which added X, and then disabled it: the entry is
\* locked and X is still held
C29_Witness ==
  \E e \in ResolvedSurvivors :
     LET X == getAchievementForSurvivorLogbook(e).challenge.achievement
     IN /\ last.op = "handleToggleEntry" /\ last.id = e.id /\ ~ last.enabled
        /\ pre = handleToggleEntry(EmptyState, e, TRUE)
        /\ X \in Range(pre.achievements)
        /\ X \in Range(saveData.achievements)
        /\ ~ isLogbookEntryUnlocked(saveData, e)

\* the categories for which the reference graph has no edge
UnlinkedCategories == { "monsters", "environments", "survivors", "drones" }

\* C30 (unlinked categories never touch challenge state): toggleLogbookEntry on an entry
\* of category monsters, environments, survivors or drones, enabling or disabling, leaves
\* achievements, unviewedAchievements and viewedUnlockables equal as sets to what they were.
C30_UnlinkedCategoriesKeepChallenges ==
  \A e \in Entries :
     /\ e.category \in UnlinkedCategories
     /\ last.op = "toggleLogbookEntry" /\ last.id = e.id
     => /\ Range(saveData.achievements) = Range(pre.achievements)
        /\ Range(saveData.unviewedAchievements) = Range(pre.unviewedAchievements)
        /\ Range(saveData.viewedUnlockables) = Range(pre.viewedUnlockables)
        /\ \A enabled \in BOOLEAN :
              LET next == toggleLogbookEntry(saveData, e, enabled)
              IN /\ Range(next.achievements) = Range(saveData.achievements)
                 /\ Range(next.unviewedAchievements) = Range(saveData.unviewedAchievements)
                 /\ Range(next.viewedUnlockables) = Range(saveData.viewedUnlockables)

\* an entry of such a category was toggled on a state holding achievements, unviewed
\* achievements and viewed unlockables, and the toggle changed the other collections
C30_Witness ==
  \E e \in Entries :
     /\ e.category \in UnlinkedCategories
     /\ last.op = "toggleLogbookEntry" /\ last.id = e.id
     /\ pre.achievements # << >> /\ pre.unviewedAchievements # << >>
     /\ pre.viewedUnlockables # << >>
     /\ Range(saveData.viewedViewables) # Range(pre.viewedViewables)
     /\ Range(saveData.achievements) = Range(pre.achievements)

\* the six operations of the engine
EngineOps ==
  { "toggleAchievement", "toggleLogbookEntry", "unlockAll", "lockAll", "unlockAllLogbook",
    "lockAllLogbook" }

\* no element occurs twice in seq
IsDuplicateFree(seq) == \A i, j \in 1..Len(seq) : seq[i] = seq[j] => i = j

\* C31 (returned collections are duplicate-free): each of the six collections returned by
\* toggleAchievement, toggleLogbookEntry, unlockAll, lockAll, unlockAllLogbook and
\* lockAllLogbook holds every element at most once, also when the input held repeats.
C31_ReturnedCollectionsDuplicateFree ==
  last.op \in EngineOps => \A f \in Collections : IsDuplicateFree(saveData[f])

\* an operation ran on a state with a repeated element in a collection it does not empty
C31_Witness ==
  /\ last.op \in EngineOps
  /\ \E f \in Collections :
        /\ ~ IsDuplicateFree(pre[f])
        /\ saveData[f] # << >>
        /\ Range(saveData[f]) = Range(pre[f])
        /\ IsDuplicateFree(saveData[f])

\* the two toggles of the engine
ToggleOps == { "toggleAchievement", "toggleLogbookEntry" }

\* the states one toggle call leads to from s
ToggleSuccessors(s) ==
  { toggleAchievement(s, id, enabled) :
      id \in { c.achievement : c \in Challenges }, enabled \in BOOLEAN }
  \cup { toggleLogbookEntry(s, e, enabled) : e \in Entries, enabled \in BOOLEAN }

ToggleSuccessorsOfEmpty == ToggleSuccessors(EmptyState)

\* saveData was reached from the empty state by toggle calls on the catalog alone
ReachedByToggles ==
  \/ saveData = EmptyState
  \/ /\ last.op \in ToggleOps /\ last.id # UnknownAchievement
     /\ pre \in { EmptyState } \cup ToggleSuccessorsOfEmpty

\* the challenges whose achievement id is held in s
Held(s) == { c \in Challenges : c.achievement \in Range(s.achievements) }

\* C32 (held achievements keep their unlocks): in every state reached from the empty state
\* by toggleAchievement and toggleLogbookEntry calls, every held challenge has all of its
\* unlock ids in unlocks and in viewedUnlockables.
C32_HeldAchievementsKeepUnlocks ==
  ReachedByToggles =>
     \A c \in Held(saveData) :
        /\ Range(c.unlocks) \subseteq Range(saveData.unlocks)
        /\ Range(c.unlocks) \subseteq Range(saveData.viewedUnlockables)

\* C33 as stated: in every state reached from the empty state by toggleAchievement and
\* toggleLogbookEntry calls, enabling or disabling, every logbook entry linked to a held
\* challenge is unlocked.
C33_HeldAchievementsKeepEntriesAsStated ==
  ReachedByToggles =>
     \A c \in Held(saveData) : \A e \in LinkedEntries(c) : isLogbookEntryUnlocked(saveData, e)

\* every logbook entry linked to a challenge held in s is unlocked in s
EntriesKept(s) == \A c \in Held(s) : \A e \in LinkedEntries(c) : isLogbookEntryUnlocked(s, e)

\* every logbook entry linked to a challenge held in s has its canonical id in viewedViewables
MarkersKept(s) ==
  \A c \in Held(s) : \A e \in LinkedEntries(c) : e.unlockId \in Range(s.viewedViewables)

\* C33 (held achievements keep their entries unlocked, amended): a toggleAchievement call,
\* enabling or disabling, and a toggleLogbookEntry call that enables lead from a state in
\* which every entry linked to a held challenge has its canonical id in viewedViewables to
\* a state with that property, in which every such entry is unlocked; hence this holds in
\* every state reached from the empty state by such calls.
C33_HeldAchievementsKeepEntries ==
  /\ MarkersKept(EmptyState)
  /\ \/ last.op = "toggleAchievement"
     \/ last.op = "toggleLogbookEntry" /\ last.enabled
     => (MarkersKept(pre) => MarkersKept(saveData) /\ EntriesKept(saveData))

\* a challenge was disabled while another held challenge shares one of its entries: the
\* shared entry is still unlocked, an entry of its own is locked
C33_Witness ==
  /\ last.op = "toggleAchievement" /\ ~ last.enabled
  /\ MarkersKept(pre) /\ MarkersKept(saveData) /\ EntriesKept(saveData)
  /\ \E a \in Held(pre) \ Held(saveData), b \in Held(saveData) :
        /\ LinkedEntries(a) \cap LinkedEntries(b) # {}
        /\ \E e \in LinkedEntries(a) :
              isLogbookEntryUnlocked(pre, e) /\ ~ isLogbookEntryUnlocked(saveData, e)

\* the six operations, the bulk enables without a DLC filter
UnfilteredSuccessors(s) ==
  ToggleSuccessors(s)
  \cup { unlockAll(s, NoFilter), unlockAllLogbook(s, NoFilter), lockAll(s), lockAllLogbook(s) }

UnfilteredSuccessorsOfEmpty == UnfilteredSuccessors(EmptyState)

\* saveData was reached from the empty state by engine operations without a DLC filter
ReachedUnfiltered ==
  \/ saveData = EmptyState
  \/ /\ last.op \in EngineOps /\ last.filter = NoFilter /\ last.id # UnknownAchievement
     /\ pre \in { EmptyState } \cup UnfilteredSuccessorsOfEmpty

\* the items and equipment entries with a linked challenge whose canonical id is viewed in s
ViewedLinkedEntries(s) ==
  { e \in Entries : /\ e.category \in { "items", "equipment" }
                    /\ DirectChallenges(e) # {}
                    /\ e.unlockId \in Range(s.viewedViewables) }

\* every viewed items or equipment entry of s with a linked challenge has a held one
ProvidersHeld(s) == \A e \in ViewedLinkedEntries(s) : DirectChallenges(e) \cap Held(s) # {}

\* C34 (unlocked linked entries have a held provider): in every state reached from the
\* empty state by the six operations, the bulk enables without a filter, every items or
\* equipment entry with a linked challenge whose canonical id is in viewedViewables has a
\* linked challenge whose achievement id is in achievements; each such operation
\* preserves the property.
C34_ViewedEntriesHaveProvider ==
  /\ ReachedUnfiltered => ProvidersHeld(saveData)
  /\ last.op \in EngineOps /\ last.filter = NoFilter /\ last.id # UnknownAchievement
     => (ProvidersHeld(pre) => ProvidersHeld(saveData))

\* an entry was disabled while two challenges linked to it were held and another entry of
\* one of them was viewed: that entry is still viewed and its challenge still held
C34_Witness ==
  /\ last.op = "toggleLogbookEntry" /\ ~ last.enabled
  /\ ReachedUnfiltered
  /\ ProvidersHeld(pre)
  /\ Cardinality(Held(pre) \cap DirectChallenges(EntryById(last.id))) >= 2
  /\ Held(saveData) # Held(pre)
  /\ ViewedLinkedEntries(saveData) # {}

\* every unviewed achievement of s is held in s
UnviewedAreHeld(s) == Range(s.unviewedAchievements) \subseteq Range(s.achievements)

\* C35 (unviewed achievements are held): each of the six operations, for any arguments,
\* leads from a state in which unviewedAchievements is a subset of achievements to a state
\* in which it is; the empty state has the property, hence so has every state reached
\* from it.
C35_UnviewedAreHeld ==
  /\ UnviewedAreHeld(EmptyState)
  /\ last.op \in EngineOps => (UnviewedAreHeld(pre) => UnviewedAreHeld(saveData))

\* an operation ran on a state with unviewed achievements, all held, and left some of them
C35_Witness ==
  /\ last.op \in EngineOps
  /\ pre.unviewedAchievements # << >> /\ UnviewedAreHeld(pre)
  /\ Range(saveData.achievements) # Range(pre.achievements)
  /\ saveData.unviewedAchievements # << >> /\ UnviewedAreHeld(saveData)

\* C36 (disabling an entry locks it): for every state and every logbook entry E, E is not
\* unlocked in the state toggleLogbookEntry returns when disabling E.
C36_DisableLocksEntry ==
  \A e \in Entries :
     /\ last.op = "toggleLogbookEntry" /\ ~ last.enabled /\ last.id = e.id
        => ~ isLogbookEntryUnlocked(saveData, e)
     /\ ~ isLogbookEntryUnlocked(toggleLogbookEntry(saveData, e, FALSE), e)

\* <<A, B, E>>: two distinct challenges whose unlock lists both hold the canonical id of E
SharedUnlockTriples ==
  { t \in Challenges \X Challenges \X Entries :
      /\ t[1] # t[2]
      /\ t[3].unlockId \in Range(t[1].unlocks) \cap Range(t[2].unlocks) }

\* C37 (shared unlock id survives in the primary signal): with the canonical id u of E in
\* the unlock lists of A and B, once A has been enabled, enabling B and then disabling A
\* leaves u in unlocks and in viewedUnlockables.
C37_SharedUnlockIdSurvives ==
  \A t \in SharedUnlockTriples :
     last.op = "toggleAchievement" /\ last.enabled /\ last.id = t[1].achievement =>
     LET both == toggleAchievement(saveData, t[2].achievement, TRUE)
         withoutA == toggleAchievement(both, t[1].achievement, FALSE)
     IN /\ t[2].achievement \in Range(withoutA.achievements)
        /\ t[3].unlockId \in Range(withoutA.unlocks)
        /\ t[3].unlockId \in Range(withoutA.viewedUnlockables)

(***************************************************************************)
(* C38.  Export round trip: the SaveData read back from the exported       *)
(* profile, extractSaveData(applySaveData(rawProfile, s)), has the same    *)
(* six collections (as sets) and the same counter map as the state s that  *)
(* the operations produced from the loaded profile; a counter that an      *)
(* operation deleted does not reappear in the export.                      *)
(***************************************************************************)
Exported(s) == extractSaveData(applySaveData(rawProfile, s))

SameContent(a, b) ==
  /\ \A f \in Collections : Range(a[f]) = Range(b[f])
  /\ a.stats = b.stats

C38_ExportRoundTrip ==
  last.op \in EngineOps => SameContent(Exported(saveData), saveData)

(***************************************************************************)
(* C39.  The DLC filter never unlocks excluded entries: unlockAll(s, f)    *)
(* and unlockAllLogbook(s, f) do not turn isLogbookEntryUnlocked from      *)
(* false to true for an entry whose DLC tag f maps to false, and do not    *)
(* add that entry's canonical id to unlocks or viewedViewables.            *)
(***************************************************************************)
BulkEnableOps == { "unlockAll", "unlockAllLogbook" }

ExcludedEntries(f) ==
  { e \in Entries : f.present /\ MapHas(f.map, e.dlc) /\ MapGet(f.map, e.dlc) = FALSE }

NotUnlockedBy(before, after, e) ==
  /\ isLogbookEntryUnlocked(after, e) => isLogbookEntryUnlocked(before, e)
  /\ e.unlockId \in Range(after.unlocks) => e.unlockId \in Range(before.unlocks)
  /\ e.unlockId \in Range(after.viewedViewables) => e.unlockId \in Range(before.viewedViewables)

C39_FilterNeverUnlocksExcludedAsStated ==
  last.op \in BulkEnableOps =>
    \A e \in ExcludedEntries(last.filter) : NotUnlockedBy(pre, saveData, e)

\* the challenges the filter lets through that grant the entry's canonical id
GrantedByAllowed(f, e) ==
  { c \in Range(challenges) : ~ dlcExcluded(f, c.dlc) /\ e.unlockId \in Range(c.unlocks) }

\* C39, amended: the same, for the excluded entries whose canonical id is not among
\* the unlock ids of a challenge that the filter lets through; the enable branch
\* applied for such a challenge unlocks the entry whatever the entry's own DLC tag.
C39_FilterNeverUnlocksExcluded ==
  last.op \in BulkEnableOps =>
    \A e \in ExcludedEntries(last.filter) :
       GrantedByAllowed(last.filter, e) = {} => NotUnlockedBy(pre, saveData, e)

\* an excluded entry stays locked while an entry the filter lets through gets unlocked
C39_Witness ==
  /\ last.op \in BulkEnableOps
  /\ \E e \in ExcludedEntries(last.filter) :
        /\ GrantedByAllowed(last.filter, e) = {}
        /\ ~ isLogbookEntryUnlocked(saveData, e)
  /\ \E e \in Entries \ ExcludedEntries(last.filter) :
        /\ e.dlc # "base"
        /\ ~ isLogbookEntryUnlocked(pre, e)
        /\ isLogbookEntryUnlocked(saveData, e)

(***************************************************************************)
(* The import phase: while the host holds no save, the import control is   *)
(* shown; choosing a file stores its name and starts an asynchronous read, *)
(* and every read that completes hands its text to handleSavedataChange.   *)
(* The text of a file is identified with the document the XML parser makes *)
(* of it.                                                                  *)
(***************************************************************************)
\* undefined, the initial value of saveData and rawProfile
Undefined == [ undefined |-> TRUE ]

\* a well-formed document whose root is not UserProfile
NotAProfile == [ html |-> "" ]

\* the files the user can choose from
Files ==
  { [ name |-> "UserProfile1.xml", content |-> applySaveData(blankProfile, CountersOnlyState) ],
    [ name |-> "UserProfile2.xml", content |-> applySaveData(blankProfile, LegacyState) ],
    [ name |-> "UserProfile3.xml", content |-> applySaveData(blankProfile, CompleteState) ],
    [ name |-> "index.html", content |-> NotAProfile ] }

\* the bundled sample save
sample == applySaveData(blankProfile, ProgressOnlyState)

\* Number of file reads that can be in flight at once
MaxReads == 3

\* ok = FALSE stands for the exception extractSaveData raises on a missing UserProfile
loadSaveFile(xmlString) ==
  IF "UserProfile" \in DOMAIN xmlString
  THEN [ ok |-> TRUE, raw |-> xmlString, saveData |-> extractSaveData(xmlString) ]
  ELSE [ ok |-> FALSE, raw |-> Undefined, saveData |-> Undefined ]

handleSavedataChange(xmlString) ==
  LET loaded == loadSaveFile(xmlString)
  IN  IF loaded.ok
      THEN /\ rawProfile' = loaded.raw
           /\ saveData' = loaded.saveData
           /\ pre' = loaded.saveData
           /\ input' = loaded.saveData
      ELSE UNCHANGED << rawProfile, saveData, pre, input >>

\* the import control is rendered while saveData && rawProfile is false
ImportShown == saveData = Undefined \/ rawProfile = Undefined

ImportInit ==
  /\ saveData = Undefined
  /\ rawProfile = Undefined
  /\ filename = ""
  /\ reads = << >>
  /\ pre = Undefined
  /\ input = Undefined
  /\ last = [ op |-> "mount", id |-> "", enabled |-> FALSE, filter |-> NoFilter ]
  /\ steps = 0

\* handleInputFileChange: the name is stored at once, the read completes later
HandleInputFileChange ==
  /\ ImportShown
  /\ Len(reads) < MaxReads
  /\ \E savefile \in Files :
       /\ filename' = savefile.name
       /\ reads' = Append(reads, savefile)
       /\ last' = [ op |-> "select", id |-> savefile.name, enabled |-> FALSE, filter |-> NoFilter ]
  /\ UNCHANGED << saveData, rawProfile, pre, input, steps >>

\* the load event of one of the readers; the readers finish in any order
ReaderLoad ==
  \E i \in 1..Len(reads) :
     /\ handleSavedataChange(reads[i].content)
     /\ reads' = SubSeq(reads, 1, i - 1) \o SubSeq(reads, i + 1, Len(reads))
     /\ last' = [ op |-> "load", id |-> reads[i].name, enabled |-> FALSE, filter |-> NoFilter ]
     /\ UNCHANGED << filename, steps >>

HandleImportSample ==
  /\ ImportShown
  /\ filename' = "sample.xml"
  /\ handleSavedataChange(sample)
  /\ last' = [ op |-> "load", id |-> "sample.xml", enabled |-> FALSE, filter |-> NoFilter ]
  /\ UNCHANGED << reads, steps >>

ImportNext ==
  \/ HandleInputFileChange
  \/ ReaderLoad
  \/ HandleImportSample

ImportSpec == ImportInit /\ [][ImportNext]_vars

(***************************************************************************)
(* C40.  Import keeps filename and content paired: when a second file is   *)
(* chosen before the first has finished loading, then in whatever order    *)
(* the reads complete, once all have completed the adopted save data and   *)
(* raw profile are those parsed from the file chosen last, whose name is   *)
(* the stored export filename.                                             *)
(***************************************************************************)
C40_ImportKeepsPairing ==
  \A f \in Files :
     (reads = << >> /\ filename = f.name /\ loadSaveFile(f.content).ok) =>
        /\ rawProfile = f.content
        /\ saveData = extractSaveData(f.content)
====
